---- MODULE Spec2Model ----
(***************************************************************************)
(* One rendering session of ZoomCanvas (src/app/zoom-canvas.tsx): the      *)
(* effect that builds the WebGL pipeline, issues the texture loads, runs   *)
(* the frame loop and the input handlers, and its cleanup.                 *)
(*                                                                         *)
(* Zoom exponents, momentum and range bounds are fixed-point integers:     *)
(* the real value x is held as x * Unit.  Fractional program constants are *)
(* pairs <<numerator, denominator>>.  Layer indices are the source's,      *)
(* 0 .. layerCount - 1; the empty texture slot (null) is NoTexture.        *)
(***************************************************************************)
EXTENDS Integers, Sequences, FiniteSets, TLC

\* ------------------------------------------------------------ bounds ----
MaxLayers == 3
MaxFrames == 3
MaxInputs == 1
\* gestures and frames of a session that is already rendering
ZoomInputs == 3
ZoomFrames == 2
\* frames of a session left alone with its current exponent off the target
EaseSteps == 100
\* wheel events of a glide and the frames that follow them
GlideWheels == 2
GlideFrames == 90
\* frames of a session under a constant tilt
TiltFrames == 320
\* frames and wheel events of a session whose textures are loading
LoadingFrames == 3
LoadingInputs == 2
\* frames and resize events of a session that drives the playback rate
PlaybackFrames == 2
PlaybackResizes == 2
\* image-set transitions started in a run
MaxTransitions == 2
\* resize events after the first resize of a session
MaxResizes == 2

\* ------------------------------------------------- program constants ----
Unit == 10 ^ 6

BASE_RECT_WIDTH == 4
BASE_RECT_HEIGHT == 3
SCALE_FACTOR == 2
BASE_SCALE == 1
ZOOM_EASING == <<8, 100>>
ZOOM_TOLERANCE == <<1, 1000>>
WHEEL_SENSITIVITY == <<12, 1000>>
LINE_TO_PIXEL_FACTOR == 16
PAGE_TO_PIXEL_FACTOR == 800
MAX_WHEEL_DELTA == 30
WHEEL_NORMALIZATION_FACTOR == 80
WHEEL_DAMPING == <<9, 10>>
WHEEL_EPSILON == <<2, 10000>>
EDGE_FEATHER_WIDTH == <<12, 100>>
OUTER_EDGE_FEATHER == <<0, 1>>
ORIENTATION_DEAD_ZONE == 0
ORIENTATION_ZOOM_SPEED == <<4, 100>>
MIN_ZOOM_SPEED == <<3, 10>>
FRAME_TIME_FACTOR == <<16, 1000>>
SNAP_BACK_SPEED == <<25, 100>>

\* ---------------------------------------------------------- numbers ----
\* Integer quotient rounded toward zero (floating point is symmetric in sign).
Trunc(a, b) == IF a >= 0 THEN a \div b ELSE -((-a) \div b)
\* x times the constant r
Mul(x, r) == Trunc(x * r[1], r[2])
\* the constant r in fixed point
Fix(r) == Mul(Unit, r)
Abs(x) == IF x < 0 THEN -x ELSE x
Max(a, b) == IF a >= b THEN a ELSE b
Min(a, b) == IF a <= b THEN a ELSE b

\* Math.log2(n / d) in fixed point, for the ratios the model feeds it:
\* positive powers of two (n / d = 2^k, k an integer).
RECURSIVE Log2(_, _)
Log2(n, d) ==
  IF n = d THEN 0
  ELSE IF n > d THEN Unit + Log2(n, 2 * d)
  ELSE Log2(2 * n, d) - Unit

\* Math.max(range.min, Math.min(range.max, x))
\* the two values of the number type that are not finite and that a
\* container without area produces: x / 0 for x > 0, and 0 / 0
Infinity == 1000 * Unit
NaN == Infinity + Unit
\* a <= b: false when either side is NaN
Leq(a, b) == a # NaN /\ b # NaN /\ a <= b
\* a < b: false when either side is NaN
Less(a, b) == a # NaN /\ b # NaN /\ a < b
\* Math.max and Math.min: NaN when either argument is NaN
MathMax(a, b) == IF a = NaN \/ b = NaN THEN NaN ELSE Max(a, b)
MathMin(a, b) == IF a = NaN \/ b = NaN THEN NaN ELSE Min(a, b)
\* (a + b) / 2
Midpoint(a, b) ==
  IF a = NaN \/ b = NaN THEN NaN
  ELSE IF a = Infinity \/ b = Infinity THEN Infinity
  ELSE Trunc(a + b, 2)
Clamp(x, range) == MathMax(range.min, MathMin(range.max, x))

\* x * x, in parts that fit the integers of the model checker
Square(x) ==
  LET a == x \div 1000
      b == x % 1000
  IN a * a + (2 * a * b * 1000 + b * b) \div Unit
\* p / q for 0 <= p <= q, two decimal places at a time
Div(p, q) ==
  LET d1 == (p * 100) \div q
      r1 == (p * 100) % q
      d2 == (r1 * 100) \div q
      r2 == (r1 * 100) % q
      d3 == (r2 * 100) \div q
  IN d1 * 10000 + d2 * 100 + d3

\* ----------------------------------------------------------- inputs ----
NoTexture == -1
\* a nullable number is a sequence: empty for null, else <<value>>
Null == <<>>

DOM_DELTA_PIXEL == 0
DOM_DELTA_LINE == 1
DOM_DELTA_PAGE == 2

\* wheel events: [deltaMode, deltaY]
WheelEvents ==
  { [deltaMode |-> DOM_DELTA_PIXEL, deltaY |-> 40],
    [deltaMode |-> DOM_DELTA_LINE, deltaY |-> -1] }

\* touch events: the number of touch points left on the surface and the
\* distance between the first two (0 when there are fewer than two)
TouchEvents ==
  { [touches |-> 0, distance |-> 0],
    [touches |-> 1, distance |-> 0],
    [touches |-> 2, distance |-> 100],
    [touches |-> 2, distance |-> 200],
    [touches |-> 2, distance |-> 0] }

\* container.clientWidth, container.clientHeight
ViewportSizes == { <<800, 600>>, <<1600, 600>>, <<3200, 600>> }

\* clientWidth and clientHeight of a container that is hidden or collapsed
CollapsedSizes == { <<0, 600>>, <<800, 0>>, <<0, 0>> }
\* a container narrower than the scene
TallSizes == { <<400, 600>> }
ContainerSizes == ViewportSizes \cup TallSizes \cup CollapsedSizes

\* the orientation prop: null or whole degrees (the host rounds and clamps)
Orientations == { Null, <<0>>, <<20>>, <<-5>> }

\* how the construction of the pipeline can end
SetupOutcomes ==
  { "ok", "noContext", "vertexNull", "vertexCompile", "fragmentNull",
    "fragmentCompile", "programNull", "link", "missingLocation", "noBuffer" }

GLObjects == { "vertexShader", "fragmentShader", "program", "buffer" }

\* ------------------------------------------------------------ state ----
VARIABLES
  layerCount,          \* images.length
  enabled,             \* prop enabled
  isMobile,            \* prop isMobile
  pc,                  \* "idle": effect not run; "active": cleanup pending;
                       \* "inert": effect returned or threw without a cleanup;
                       \* "closed": cleanup has run
  readyRef,            \* readyRef.current
  orientationRef,      \* orientationRef.current
  zoomRangeRef,        \* zoomRangeRef.current
  glObjects,           \* shaders, program, buffer: [created, deleted]
  glTextures,          \* texture objects made by gl.createTexture, by the
                       \* index of the load that made them: [created, deleted]
  textures,            \* the texture table
  texturesReady,
  cancelled,
  load,                \* the promise of loadTexture(layers[i].src)
  batch,               \* what loadAllTextures did after its await: "pending"
                       \* (not resumed yet), "assigned" or "disposed"
  framePending,        \* a callback requested by requestAnimationFrame is due
  listening,           \* the event listeners are registered
  targetZoomExponent,
  currentZoomExponent,
  wheelMomentum,
  pinchStartDistance,
  pinchStartExponent,
  pinchActive,
  zoomInitialized,
  onReadyCalls,        \* number of calls of onReady
  frames,              \* number of calls of render
  frame,               \* what the last call of render did
  inputs,              \* number of input events delivered
  bgMusic,             \* host: bgMusicRef.current is a playing source
  isMuted,             \* host: isMutedRef.current
  playbackRate,        \* host: bgMusicRef.current.playbackRate.value
  activeSet,           \* host: name of the image set on display
  pendingSet,          \* host: name of the image set to switch to, or NoSet
  fadePhase,           \* host: phase of the image-set transition
  overlayState,        \* host: "hidden", "half", "full" or "fading"
  revealReady,         \* host: revealReady
  preload,             \* host: the promises of preloadImages, per image
  transitions          \* host: number of transitions started

propVars == <<layerCount, enabled, isMobile>>
gpuVars == <<glObjects, glTextures>>
loadVars == <<textures, texturesReady, load, batch>>
pinchVars == <<pinchStartDistance, pinchStartExponent, pinchActive>>
zoomVars == <<targetZoomExponent, currentZoomExponent, wheelMomentum>>
frameVars == <<frames, frame>>
audioVars == <<bgMusic, isMuted, playbackRate>>
fadeVars == <<activeSet, pendingSet, fadePhase, overlayState, revealReady,
              preload, transitions>>
hostVars == <<audioVars, fadeVars>>
canvasVars == <<propVars, pc, readyRef, orientationRef, zoomRangeRef, gpuVars,
                loadVars, cancelled, framePending, listening, zoomVars,
                pinchVars, zoomInitialized, onReadyCalls, frameVars, inputs>>

vars == <<layerCount, enabled, isMobile, pc, readyRef, orientationRef,
          zoomRangeRef, glObjects, glTextures, textures, texturesReady,
          cancelled, load, batch, framePending, listening,
          targetZoomExponent, currentZoomExponent, wheelMomentum,
          pinchStartDistance, pinchStartExponent, pinchActive,
          zoomInitialized, onReadyCalls, frames, frame, inputs,
          bgMusic, isMuted, playbackRate, activeSet, pendingSet, fadePhase,
          overlayState, revealReady, preload, transitions>>

LayerIndices == 0 .. layerCount - 1

NoObject == [created |-> FALSE, deleted |-> 0]
\* a call of render that did nothing, having read these two flags
NoFrame(wasCancelled, wasReady) ==
  [cancelled |-> wasCancelled, ready |-> wasReady,
   cleared |-> FALSE, zoomScale |-> Null, draws |-> <<>>, reported |-> <<>>]

\* gl.createShader / createProgram / createBuffer / createTexture
Created(o) == [o EXCEPT !.created = TRUE]
\* gl.deleteShader / deleteProgram / deleteBuffer / deleteTexture
Deleted(o) == [o EXCEPT !.deleted = @ + 1]

\* ------------------------------------------------------ Layer Stack ----
\* layers[index].scale with the exponent counted from one
buildLayersFromOne(index) == BASE_SCALE * SCALE_FACTOR ^ (index + 1)

\* layers[index].scale
buildLayers(index) == BASE_SCALE * SCALE_FACTOR ^ index

\* ---------------------------------------------- Zoom Range Calculator ----
\* updateZoomRange taking the outermost scale itself as the largest
\* admissible scale on a handheld device
updateZoomRangeNoSqrt2(canvasAspect) ==
  LET outerScale == IF layerCount >= 1 THEN buildLayers(layerCount - 1) ELSE 1
      innerScale == IF layerCount >= 1 THEN buildLayers(0) ELSE 1
      wider == canvasAspect[1] * BASE_RECT_HEIGHT > BASE_RECT_WIDTH * canvasAspect[2]
      stretchN == IF wider THEN canvasAspect[1] * BASE_RECT_HEIGHT
                           ELSE BASE_RECT_WIDTH * canvasAspect[2]
      stretchD == IF wider THEN BASE_RECT_WIDTH * canvasAspect[2]
                           ELSE canvasAspect[1] * BASE_RECT_HEIGHT
      minExp == IF isMobile THEN Log2(innerScale, 1)
                ELSE IF canvasAspect[1] = 0 /\ canvasAspect[2] = 0 THEN NaN
                ELSE IF canvasAspect[1] = 0 \/ canvasAspect[2] = 0 THEN Infinity
                ELSE Log2(innerScale * stretchN, stretchD)
      maxExp == Log2(outerScale, 1)
  IN IF Leq(minExp, maxExp) THEN [min |-> minExp, max |-> maxExp]
                            ELSE [min |-> maxExp, max |-> minExp]

\* canvasAspect is the pair <<width, height>>
updateZoomRange(canvasAspect) ==
  LET outerScale == IF layerCount >= 1 THEN buildLayers(layerCount - 1) ELSE 1
      innerScale == IF layerCount >= 1 THEN buildLayers(0) ELSE 1
      \* canvasAspect > sceneAspect
      wider == canvasAspect[1] * BASE_RECT_HEIGHT > BASE_RECT_WIDTH * canvasAspect[2]
      \* aspectStretch as numerator and denominator
      stretchN == IF wider THEN canvasAspect[1] * BASE_RECT_HEIGHT
                           ELSE BASE_RECT_WIDTH * canvasAspect[2]
      stretchD == IF wider THEN BASE_RECT_WIDTH * canvasAspect[2]
                           ELSE canvasAspect[1] * BASE_RECT_HEIGHT
      \* width / height is 0 / 0 = NaN in a container with neither width nor
      \* height; aspectStretch is a division by 0 when only one of them is 0
      minExp == IF isMobile THEN Log2(innerScale, 1)
                ELSE IF canvasAspect[1] = 0 /\ canvasAspect[2] = 0 THEN NaN
                ELSE IF canvasAspect[1] = 0 \/ canvasAspect[2] = 0 THEN Infinity
                ELSE Log2(innerScale * stretchN, stretchD)
      \* log2(outerScale / sqrt 2) = log2(outerScale) - 1/2
      maxExp == IF isMobile THEN Log2(outerScale, 1) - Unit \div 2
                            ELSE Log2(outerScale, 1)
  IN IF Leq(minExp, maxExp) THEN [min |-> minExp, max |-> maxExp]
                            ELSE [min |-> maxExp, max |-> minExp]

\* resize() centring the exponents on every call
resizeRecentres(size) ==
  LET range == updateZoomRange(size)
      midZoom == Midpoint(range.min, range.max)
  IN /\ zoomRangeRef' = range
     /\ zoomInitialized' = TRUE
     /\ targetZoomExponent' = midZoom
     /\ currentZoomExponent' = midZoom
     /\ pinchStartExponent' = midZoom

\* resize(): the new range and the re-centred or re-clamped exponents
resize(size) ==
  LET range == updateZoomRange(size)
      midZoom == Midpoint(range.min, range.max)
  IN /\ zoomRangeRef' = range
     /\ zoomInitialized' = TRUE
     /\ IF ~zoomInitialized
          THEN /\ targetZoomExponent' = midZoom
               /\ currentZoomExponent' = midZoom
               /\ pinchStartExponent' = midZoom
          ELSE /\ targetZoomExponent' = Clamp(targetZoomExponent, range)
               /\ currentZoomExponent' = Clamp(currentZoomExponent, range)
               /\ pinchStartExponent' = Clamp(pinchStartExponent, range)

\* --------------------------------------------------- Texture Loader ----
\* results is the array Promise.allSettled resolves to: per layer index
\* "fulfilled" (its value is texture object index) or "rejected"
Fulfilled(results) == { i \in LayerIndices : results[i] = "fulfilled" }

\* disposeSettledTextures deleting nothing
disposeNothing(results, objects) == objects

\* the texture objects after disposeSettledTextures(results)
disposeSettledTextures(results, objects) ==
  [i \in LayerIndices |->
     IF results[i] = "fulfilled" THEN Deleted(objects[i]) ELSE objects[i]]

\* assignTexturesFromResults leaving readyRef.current unset after its signal
assignWithoutReadyRef(results) ==
  LET hasTexture == Fulfilled(results) # {}
      signal == ~cancelled /\ hasTexture /\ ~readyRef
  IN [textures |-> [i \in LayerIndices |->
                      IF results[i] = "fulfilled" THEN i ELSE textures[i]],
      texturesReady |-> hasTexture,
      readyRef |-> readyRef,
      onReady |-> IF signal THEN 1 ELSE 0]

\* assignTexturesFromResults stopping at the first rejected result
assignUntilRejected(results) ==
  LET taken == { i \in LayerIndices :
                   \A j \in 0 .. i : results[j] = "fulfilled" }
      hasTexture == taken # {}
      signal == ~cancelled /\ hasTexture /\ ~readyRef
  IN [textures |-> [i \in LayerIndices |->
                      IF i \in taken THEN i ELSE textures[i]],
      texturesReady |-> hasTexture,
      readyRef |-> (readyRef \/ signal),
      onReady |-> IF signal THEN 1 ELSE 0]

\* assignTexturesFromResults(results): the texture table, the two flags and
\* the number of calls of onReady it makes
assignTexturesFromResults(results) ==
  LET hasTexture == Fulfilled(results) # {}
      signal == ~cancelled /\ hasTexture /\ ~readyRef
  IN [textures |-> [i \in LayerIndices |->
                      IF results[i] = "fulfilled" THEN i ELSE textures[i]],
      texturesReady |-> hasTexture,
      readyRef |-> (readyRef \/ signal),
      onReady |-> IF signal THEN 1 ELSE 0]

\* loadAllTextures never consulting the cancellation flag
loadAllTexturesUncancelled(results, objects) ==
  LET hasTexture == Fulfilled(results) # {}
      signal == hasTexture /\ ~readyRef
  IN /\ textures' = [i \in LayerIndices |->
                       IF results[i] = "fulfilled" THEN i ELSE textures[i]]
     /\ texturesReady' = hasTexture
     /\ readyRef' = (readyRef \/ signal)
     /\ onReadyCalls' = onReadyCalls + (IF signal THEN 1 ELSE 0)
     /\ batch' = "assigned"
     /\ glTextures' = objects

\* loadAllTextures from the point where the await returns
loadAllTextures(results, objects) ==
  IF cancelled
    THEN /\ glTextures' = disposeSettledTextures(results, objects)
         /\ batch' = "disposed"
         /\ UNCHANGED <<textures, texturesReady, readyRef, onReadyCalls>>
    ELSE LET assigned == assignTexturesFromResults(results)
             signal == ~cancelled /\ assigned.texturesReady /\ ~assigned.readyRef
         IN /\ textures' = assigned.textures
            /\ texturesReady' = assigned.texturesReady
            /\ readyRef' = (assigned.readyRef \/ signal)
            /\ onReadyCalls' = onReadyCalls + assigned.onReady
                                            + (IF signal THEN 1 ELSE 0)
            /\ batch' = "assigned"
            /\ glTextures' = objects

\* the settlement with the continuation resuming on the first rejection, as
\* under Promise.all
settleFailFast(i, outcome) ==
  LET results == [load EXCEPT ![i] = outcome]
      objects == IF outcome = "fulfilled"
                   THEN [glTextures EXCEPT ![i] = Created(@)]
                   ELSE glTextures
  IN /\ load' = results
     /\ IF batch = "pending"
           /\ (outcome = "rejected" \/ \A j \in LayerIndices : results[j] # "pending")
          THEN loadAllTextures(results, objects)
          ELSE /\ glTextures' = objects
               /\ UNCHANGED <<textures, texturesReady, readyRef,
                              onReadyCalls, batch>>

\* the settlement with each texture put into its slot as its load succeeds
settlePerLoad(i, outcome) ==
  LET results == [load EXCEPT ![i] = outcome]
      objects == IF outcome = "fulfilled"
                   THEN [glTextures EXCEPT ![i] = Created(@)]
                   ELSE glTextures
      signal == outcome = "fulfilled" /\ ~cancelled /\ ~readyRef
  IN /\ load' = results
     /\ glTextures' = objects
     /\ textures' = IF outcome = "fulfilled" /\ ~cancelled
                      THEN [textures EXCEPT ![i] = i] ELSE textures
     /\ texturesReady' = (texturesReady \/ (outcome = "fulfilled" /\ ~cancelled))
     /\ readyRef' = (readyRef \/ signal)
     /\ onReadyCalls' = onReadyCalls + (IF signal THEN 1 ELSE 0)
     /\ batch' = IF \A j \in LayerIndices : results[j] # "pending"
                   THEN (IF cancelled THEN "disposed" ELSE "assigned")
                   ELSE batch

\* the promise of loadTexture for layer i settles; when it is the last one,
\* Promise.allSettled resolves and loadAllTextures resumes in the same turn
settle(i, outcome) ==
  LET results == [load EXCEPT ![i] = outcome]
      objects == IF outcome = "fulfilled"
                   THEN [glTextures EXCEPT ![i] = Created(@)]
                   ELSE glTextures
  IN /\ load' = results
     /\ IF \A j \in LayerIndices : results[j] # "pending"
          THEN loadAllTextures(results, objects)
          ELSE /\ glTextures' = objects
               /\ UNCHANGED <<textures, texturesReady, readyRef,
                              onReadyCalls, batch>>

\* -------------------------------------------------- Input Aggregator ----
normalizedDelta(event) ==
  IF event.deltaMode = DOM_DELTA_PIXEL THEN event.deltaY
  ELSE IF event.deltaMode = DOM_DELTA_LINE THEN event.deltaY * LINE_TO_PIXEL_FACTOR
  ELSE IF event.deltaMode = DOM_DELTA_PAGE THEN event.deltaY * PAGE_TO_PIXEL_FACTOR
  ELSE event.deltaY

\* handleWheel adding the normalised delta without the clamp to MAX_WHEEL_DELTA
handleWheelUnclamped(event) ==
  IF ~enabled THEN wheelMomentum
  ELSE wheelMomentum + Trunc(normalizedDelta(event) * Unit, WHEEL_NORMALIZATION_FACTOR)

\* the momentum after handleWheel
handleWheel(event) ==
  IF ~enabled THEN wheelMomentum
  ELSE LET clampedDelta == Max(-MAX_WHEEL_DELTA, Min(MAX_WHEEL_DELTA, normalizedDelta(event)))
           scaledDelta == Trunc(clampedDelta * Unit, WHEEL_NORMALIZATION_FACTOR)
       IN wheelMomentum + scaledDelta

getTouchDistance(event) == IF event.touches >= 2 THEN event.distance ELSE 0

beginPinch(event) ==
  IF ~enabled \/ event.touches # 2
    THEN UNCHANGED pinchVars
    ELSE /\ pinchActive' = TRUE
         /\ pinchStartDistance' = getTouchDistance(event)
         /\ pinchStartExponent' = targetZoomExponent

\* updatePinch reading the ratio against the target at the time of the move
\* instead of the exponent recorded when the pinch began
updatePinchFromTarget(event) ==
  LET distance == getTouchDistance(event)
  IN IF ~pinchActive \/ event.touches # 2 THEN targetZoomExponent
     ELSE IF pinchStartDistance <= 0 THEN targetZoomExponent
     ELSE IF distance <= 0 THEN targetZoomExponent
     ELSE Clamp(targetZoomExponent - Log2(distance, pinchStartDistance), zoomRangeRef)

\* updatePinch without the tests of the start distance and of the ratio:
\* log2 of a ratio of 0 is -Infinity and the clamp then yields the maximum
updatePinchUnguarded(event) ==
  LET distance == getTouchDistance(event)
  IN IF ~pinchActive \/ event.touches # 2 THEN targetZoomExponent
     ELSE IF pinchStartDistance <= 0 \/ distance <= 0 THEN zoomRangeRef.max
     ELSE Clamp(pinchStartExponent - Log2(distance, pinchStartDistance), zoomRangeRef)

\* the target after updatePinch
updatePinch(event) ==
  LET distance == getTouchDistance(event)
  IN IF ~pinchActive \/ event.touches # 2 THEN targetZoomExponent
     ELSE IF pinchStartDistance <= 0 THEN targetZoomExponent
     \* ratio = distance / pinchStartDistance; ratio <= 0
     ELSE IF distance <= 0 THEN targetZoomExponent
     ELSE Clamp(pinchStartExponent - Log2(distance, pinchStartDistance), zoomRangeRef)

\* endPinch ending the gesture only when the last touch point is lifted
endPinchOnLastTouch(event) ==
  IF event.touches < 1
    THEN /\ pinchActive' = FALSE
         /\ pinchStartDistance' = 0
         /\ UNCHANGED pinchStartExponent
    ELSE UNCHANGED pinchVars

endPinch(event) ==
  IF event.touches < 2
    THEN /\ pinchActive' = FALSE
         /\ pinchStartDistance' = 0
         /\ UNCHANGED pinchStartExponent
    ELSE UNCHANGED pinchVars

\* applyWheelMomentum without the zeroing below WHEEL_EPSILON
applyWheelMomentumNoEpsilon(target, momentum) ==
  IF momentum = 0 THEN [target |-> target, momentum |-> momentum]
  ELSE [target |-> Clamp(target + Mul(momentum, WHEEL_SENSITIVITY), zoomRangeRef),
        momentum |-> Mul(momentum, WHEEL_DAMPING)]

\* [target, momentum] after applyWheelMomentum
applyWheelMomentum(target, momentum) ==
  IF momentum = 0 THEN [target |-> target, momentum |-> momentum]
  ELSE LET deltaExponent == Mul(momentum, WHEEL_SENSITIVITY)
           damped == Mul(momentum, WHEEL_DAMPING)
       IN [target |-> Clamp(target + deltaExponent, zoomRangeRef),
           momentum |-> IF Abs(damped) < Fix(WHEEL_EPSILON) THEN 0 ELSE damped]

\* applyOrientationZoom without the null test (null reads as the number 0)
\* and with the minimum speed applied to every reading that is not positive
applyOrientationZoomOnNull(target) ==
  LET currentOrientation == IF orientationRef = Null THEN 0 ELSE orientationRef[1]
      raw == Mul(currentOrientation * Unit, ORIENTATION_ZOOM_SPEED)
      zoomDelta == IF currentOrientation > ORIENTATION_DEAD_ZONE
                     THEN Max(raw, Fix(MIN_ZOOM_SPEED))
                     ELSE Min(raw, -Fix(MIN_ZOOM_SPEED))
  IN Clamp(target + Mul(zoomDelta, FRAME_TIME_FACTOR), zoomRangeRef)

\* applyOrientationZoom without the minimum speed
applyOrientationZoomNoFloor(target) ==
  IF orientationRef = Null THEN target
  ELSE LET zoomDelta == Mul(orientationRef[1] * Unit, ORIENTATION_ZOOM_SPEED)
       IN Clamp(target + Mul(zoomDelta, FRAME_TIME_FACTOR), zoomRangeRef)

\* the target after applyOrientationZoom
applyOrientationZoom(target) ==
  IF orientationRef = Null THEN target
  ELSE LET currentOrientation == orientationRef[1]
           raw == Mul(currentOrientation * Unit, ORIENTATION_ZOOM_SPEED)
           zoomDelta == IF currentOrientation > ORIENTATION_DEAD_ZONE
                          THEN Max(raw, Fix(MIN_ZOOM_SPEED))
                        ELSE IF currentOrientation < -ORIENTATION_DEAD_ZONE
                          THEN Min(raw, -Fix(MIN_ZOOM_SPEED))
                        ELSE raw
       IN Clamp(target + Mul(zoomDelta, FRAME_TIME_FACTOR), zoomRangeRef)

\* --------------------------------------------------- Zoom Integrator ----
\* the snap-back block of render: the target after it
snapBack(target, momentum) ==
  IF ~(~pinchActive /\ momentum = 0) THEN target
  ELSE IF Less(target, zoomRangeRef.min)
    THEN LET t == target + Mul(zoomRangeRef.min - target, SNAP_BACK_SPEED)
         IN IF Abs(t - zoomRangeRef.min) < Fix(ZOOM_TOLERANCE)
              THEN zoomRangeRef.min ELSE t
  ELSE IF Less(zoomRangeRef.max, target)
    THEN LET t == target + Mul(zoomRangeRef.max - target, SNAP_BACK_SPEED)
         IN IF Abs(t - zoomRangeRef.max) < Fix(ZOOM_TOLERANCE)
              THEN zoomRangeRef.max ELSE t
  ELSE target

\* stepZoom without the snap to the target inside the tolerance
stepZoomNoSnap(current, target) ==
  current + Mul(target - current, ZOOM_EASING)

\* currentZoomExponent after stepZoom
\* stepZoom with a step longer than the distance left
stepZoomOvershoot(current, target) ==
  LET c == current + Mul(target - current, <<3, 2>>)
  IN IF Abs(target - c) < Fix(ZOOM_TOLERANCE) THEN target ELSE c

\* Infinity - Infinity and every sum with NaN is NaN, and NaN < x is false
stepZoom(current, target) ==
  LET c == current + Mul(target - current, ZOOM_EASING)
  IN IF current = NaN \/ target = NaN \/ current = Infinity THEN NaN
     ELSE IF target = Infinity THEN Infinity
     ELSE IF Abs(target - c) < Fix(ZOOM_TOLERANCE) THEN target ELSE c

\* -------------------------------------------------------- Compositor ----
\* the draw calls of a drawScene that does not skip the empty slots
RECURSIVE drawLayersUnskipped(_)
drawLayersUnskipped(index) ==
  IF index < 0 THEN <<>>
  ELSE << [index |-> index,
           texture |-> textures[index],
           feather |-> IF index = layerCount - 1 THEN OUTER_EDGE_FEATHER
                                                 ELSE EDGE_FEATHER_WIDTH,
           scale |-> buildLayers(index)] >>
       \o drawLayersUnskipped(index - 1)

\* the draw calls of drawScene, in the order issued
RECURSIVE drawLayers(_)
drawLayers(index) ==
  IF index < 0 THEN <<>>
  ELSE (IF textures[index] = NoTexture THEN <<>>
        ELSE << [index |-> index,
                 texture |-> textures[index],
                 feather |-> IF index = layerCount - 1 THEN OUTER_EDGE_FEATHER
                                                       ELSE EDGE_FEATHER_WIDTH,
                 scale |-> buildLayers(index)] >>)
       \o drawLayers(index - 1)

drawScene == drawLayers(layerCount - 1)

\* -------------------------------------------------------- frame loop ----
\* the rendering frame reporting the exponent read before the easing step
renderFrameReportsStale ==
  LET wheel == applyWheelMomentum(targetZoomExponent, wheelMomentum)
      tilted == applyOrientationZoom(wheel.target)
      target == snapBack(tilted, wheel.momentum)
      current == stepZoom(currentZoomExponent, target)
  IN /\ targetZoomExponent' = target
     /\ wheelMomentum' = wheel.momentum
     /\ currentZoomExponent' = current
     /\ frame' = [cancelled |-> cancelled, ready |-> texturesReady,
                  cleared |-> TRUE,
                  zoomScale |-> <<current>>,
                  draws |-> drawScene,
                  reported |-> << [zoomExponent |-> currentZoomExponent,
                                   zoomRange |-> zoomRangeRef] >>]
     /\ framePending' = TRUE

\* the rendering frame easing toward the target of the previous frame, before
\* the momentum, the tilt and the snap-back move the target
renderFrameEaseFirst ==
  LET current == stepZoom(currentZoomExponent, targetZoomExponent)
      wheel == applyWheelMomentum(targetZoomExponent, wheelMomentum)
      tilted == applyOrientationZoom(wheel.target)
      target == snapBack(tilted, wheel.momentum)
  IN /\ targetZoomExponent' = target
     /\ wheelMomentum' = wheel.momentum
     /\ currentZoomExponent' = current
     /\ frame' = [cancelled |-> cancelled, ready |-> texturesReady,
                  cleared |-> TRUE,
                  zoomScale |-> <<current>>,
                  draws |-> drawScene,
                  reported |-> << [zoomExponent |-> current,
                                   zoomRange |-> zoomRangeRef] >>]
     /\ framePending' = TRUE

\* the steps of a rendering frame: momentum, tilt, snap-back, easing, draw,
\* report, request of the next frame
renderFrame ==
  LET wheel == applyWheelMomentum(targetZoomExponent, wheelMomentum)
      tilted == applyOrientationZoom(wheel.target)
      target == snapBack(tilted, wheel.momentum)
      current == stepZoom(currentZoomExponent, target)
  IN /\ targetZoomExponent' = target
     /\ wheelMomentum' = wheel.momentum
     /\ currentZoomExponent' = current
     /\ frame' = [cancelled |-> cancelled, ready |-> texturesReady,
                  cleared |-> TRUE,
                  zoomScale |-> <<current>>,
                  draws |-> drawScene,
                  reported |-> << [zoomExponent |-> current,
                                   zoomRange |-> zoomRangeRef] >>]
     /\ framePending' = TRUE

\* render without the test of the cancellation flag
renderUncancelled ==
  /\ frames' = frames + 1
  /\ IF ~texturesReady
       THEN /\ frame' = NoFrame(cancelled, FALSE)
            /\ framePending' = TRUE
            /\ UNCHANGED zoomVars
       ELSE renderFrame

\* render without the test of the readiness flag
renderUngated ==
  /\ frames' = frames + 1
  /\ IF cancelled
       THEN /\ frame' = NoFrame(TRUE, texturesReady)
            /\ framePending' = FALSE
            /\ UNCHANGED zoomVars
       ELSE renderFrame

\* one call of render
\* render damping the wheel momentum on the frames that wait for textures
renderDecaysWhileLoading ==
  /\ frames' = frames + 1
  /\ IF cancelled
       THEN /\ frame' = NoFrame(TRUE, texturesReady)
            /\ framePending' = FALSE
            /\ UNCHANGED zoomVars
     ELSE IF ~texturesReady
       THEN /\ frame' = NoFrame(FALSE, FALSE)
            /\ framePending' = TRUE
            /\ wheelMomentum' = Mul(wheelMomentum, WHEEL_DAMPING)
            /\ UNCHANGED <<targetZoomExponent, currentZoomExponent>>
     ELSE renderFrame

render ==
  /\ frames' = frames + 1
  /\ IF cancelled
       THEN /\ frame' = NoFrame(TRUE, texturesReady)
            /\ framePending' = FALSE
            /\ UNCHANGED zoomVars
     ELSE IF ~texturesReady
       THEN /\ frame' = NoFrame(FALSE, FALSE)
            /\ framePending' = TRUE
            /\ UNCHANGED zoomVars
     ELSE renderFrame

\* ------------------------------------------------------------ setup ----
\* the effect with an empty image list returning without the ready signal
setupEmptySilent ==
  /\ pc' = "inert"
  /\ UNCHANGED <<readyRef, zoomRangeRef, gpuVars, loadVars, cancelled,
                 framePending, listening, zoomVars, pinchVars,
                 zoomInitialized, onReadyCalls>>

\* the effect with an empty image list
setupEmpty ==
  /\ onReadyCalls' = onReadyCalls + 1
  /\ pc' = "inert"
  /\ UNCHANGED <<readyRef, zoomRangeRef, gpuVars, loadVars, cancelled,
                 framePending, listening, zoomVars, pinchVars, zoomInitialized>>

\* the objects left by the construction of the pipeline
pipeline(outcome) ==
  LET made == Created(NoObject)
      gone == Deleted(made)
  IN [o \in GLObjects |->
       CASE outcome \in {"noContext", "vertexNull"} -> NoObject
         [] outcome = "vertexCompile" ->
              IF o = "vertexShader" THEN gone ELSE NoObject
         [] outcome = "fragmentNull" ->
              IF o = "vertexShader" THEN made ELSE NoObject
         [] outcome = "fragmentCompile" ->
              IF o = "vertexShader" THEN made
              ELSE IF o = "fragmentShader" THEN gone ELSE NoObject
         [] outcome = "programNull" ->
              IF o \in {"vertexShader", "fragmentShader"} THEN made ELSE NoObject
         [] outcome = "link" ->
              IF o \in {"vertexShader", "fragmentShader"} THEN made
              ELSE IF o = "program" THEN gone ELSE NoObject
         [] outcome \in {"missingLocation", "noBuffer"} ->
              IF o = "buffer" THEN NoObject ELSE made
         [] OTHER -> made]

\* the effect with at least one image, up to the point where it fails
setupAborted(outcome) ==
  /\ readyRef' = FALSE
  /\ glObjects' = pipeline(outcome)
  /\ onReadyCalls' = onReadyCalls + (IF outcome = "noContext" THEN 1 ELSE 0)
  /\ pc' = "inert"
  /\ UNCHANGED <<zoomRangeRef, glTextures, loadVars, cancelled, framePending,
                 listening, zoomVars, pinchVars, zoomInitialized>>

\* the effect with at least one image, run to its end
setupSession(size) ==
  /\ readyRef' = FALSE
  /\ glObjects' = pipeline("ok")
  /\ resize(size)
  /\ listening' = TRUE
  /\ framePending' = TRUE
  /\ load' = [i \in LayerIndices |-> "pending"]
  /\ pc' = "active"
  /\ UNCHANGED <<glTextures, textures, texturesReady, batch, cancelled,
                 wheelMomentum, pinchStartDistance, pinchActive, onReadyCalls>>

\* the cleanup without its loop over the texture table
\* the cleanup deleting every texture created so far, in the table or not
cleanupDeletesLoaded ==
  /\ cancelled' = TRUE
  /\ framePending' = FALSE
  /\ listening' = FALSE
  /\ glTextures' = [i \in LayerIndices |->
       IF glTextures[i].created THEN Deleted(glTextures[i]) ELSE glTextures[i]]
  /\ glObjects' = [o \in GLObjects |-> Deleted(glObjects[o])]
  /\ pc' = "closed"

cleanupKeepsTextures ==
  /\ cancelled' = TRUE
  /\ framePending' = FALSE
  /\ listening' = FALSE
  /\ glTextures' = glTextures
  /\ glObjects' = [o \in GLObjects |-> Deleted(glObjects[o])]
  /\ pc' = "closed"

\* the cleanup returned by the effect
cleanup ==
  /\ cancelled' = TRUE
  /\ framePending' = FALSE
  /\ listening' = FALSE
  /\ glTextures' = [i \in LayerIndices |->
       IF \E s \in LayerIndices : textures[s] = i
         THEN [glTextures[i] EXCEPT !.deleted =
                 @ + Cardinality({s \in LayerIndices : textures[s] = i})]
         ELSE glTextures[i]]
  /\ glObjects' = [o \in GLObjects |-> Deleted(glObjects[o])]
  /\ pc' = "closed"

\* --------------------------------------------------------- the host ----
MIN_PLAYBACK_RATE == <<1, 2>>
MAX_PLAYBACK_RATE == <<2, 1>>
MIDDLE_PLAYBACK_RATE == <<1, 1>>
QUADRATIC_A == <<1, 1>>
QUADRATIC_B == <<1, 2>>

\* names of the image sets and the number of images of each
ImageSetNames == { "animals", "birds", "cities" }
ImageCount(name) ==
  CASE name = "animals" -> 2
    [] name = "birds" -> 1
    [] OTHER -> 3
\* pendingSet is null
NoSet == "null"

\* the host at rest: no audio started, the initial set on display, no
\* transition under way
HostInit ==
  /\ bgMusic = FALSE
  /\ isMuted = FALSE
  /\ playbackRate = Fix(MIDDLE_PLAYBACK_RATE)
  /\ activeSet = "animals"
  /\ pendingSet = NoSet
  /\ fadePhase = "idle"
  /\ overlayState = "hidden"
  /\ revealReady = FALSE
  /\ preload = <<>>
  /\ transitions = 0

\* ------------------------------------------------ host: playback rate ----
\* the value updatePlaybackRate assigns to playbackRate.value, or the value
\* it leaves there when there is no source or the sound is muted
updatePlaybackRate(zoomExponent, zoomRange) ==
  IF ~bgMusic \/ isMuted THEN playbackRate
  ELSE LET span == zoomRange.max - zoomRange.min
           \* the quotient is NaN for NaN operands and for Infinity / Infinity,
           \* and 0 for a finite numerator over Infinity
           normalized ==
             IF zoomRange.max = zoomRange.min /\ zoomRange.max # NaN
               THEN Unit \div 2
             ELSE IF zoomExponent = NaN \/ zoomRange.min = NaN
                       \/ zoomRange.max = NaN THEN NaN
             ELSE IF zoomRange.max = Infinity
               THEN IF zoomExponent = Infinity THEN NaN ELSE 0
             ELSE Div(zoomExponent - zoomRange.min, span)
       IN IF normalized = NaN THEN NaN
          ELSE Mul(Square(normalized), QUADRATIC_A)
                 + Mul(normalized, QUADRATIC_B)
                 + Fix(MIN_PLAYBACK_RATE)

\* onZoomChange of the frame that has just run
onZoomChange ==
  /\ playbackRate' =
       IF frame'.reported = <<>> THEN playbackRate
       ELSE updatePlaybackRate(frame'.reported[1].zoomExponent,
                               frame'.reported[1].zoomRange)
  /\ UNCHANGED <<bgMusic, isMuted, fadeVars>>

\* toggleMute: a source is created at the middle rate when the sound is
\* unmuted with none playing and the music buffer has been decoded
toggleMute ==
  /\ isMuted' = ~isMuted
  /\ IF isMuted /\ ~bgMusic
       THEN \/ bgMusic' = TRUE /\ playbackRate' = Fix(MIDDLE_PLAYBACK_RATE)
            \/ UNCHANGED <<bgMusic, playbackRate>>
       ELSE UNCHANGED <<bgMusic, playbackRate>>
  /\ UNCHANGED fadeVars

\* --------------------------------------------- host: set transitions ----
\* startTransition without the test of the phase
startTransitionUnguarded(target) ==
  IF target = activeSet
    THEN UNCHANGED <<pendingSet, revealReady, overlayState, fadePhase>>
    ELSE /\ pendingSet' = target
         /\ revealReady' = FALSE
         /\ overlayState' = "half"
         /\ fadePhase' = "fading-in"

startTransition(target) ==
  IF fadePhase # "idle" \/ target = activeSet
    THEN UNCHANGED <<pendingSet, revealReady, overlayState, fadePhase>>
    ELSE /\ pendingSet' = target
         /\ revealReady' = FALSE
         /\ overlayState' = "half"
         /\ fadePhase' = "fading-in"

\* the timer of phase fading-in fires; the loading effect then calls
\* preloadImages(pendingSet), one promise per image of the set
fadeInTimer ==
  /\ fadePhase = "fading-in"
  /\ fadePhase' = "loading"
  /\ preload' = IF pendingSet # NoSet
                  THEN [k \in 1 .. ImageCount(pendingSet) |-> "loading"]
                  ELSE preload
  /\ UNCHANGED <<activeSet, pendingSet, overlayState, revealReady>>

\* preloadImages whose promise of an image stays open when the image fails
preloadKeepsFailuresOpen(k, outcome) ==
  LET promises == [preload EXCEPT ![k] = outcome]
  IN /\ preload' = promises
     /\ IF \A j \in DOMAIN promises : promises[j] = "loaded"
          THEN /\ revealReady' = TRUE
               /\ fadePhase' = "fading-to-black"
               /\ overlayState' = "full"
          ELSE UNCHANGED <<revealReady, fadePhase, overlayState>>
     /\ UNCHANGED <<activeSet, pendingSet>>

\* img.onload or img.onerror of image k resolves its promise; when the last
\* one is resolved the continuation sets phase fading-to-black, whose effect
\* makes the overlay opaque
preloadImages(k, outcome) ==
  LET promises == [preload EXCEPT ![k] = outcome]
  IN /\ preload' = promises
     /\ IF \A j \in DOMAIN promises : promises[j] # "loading"
          THEN /\ revealReady' = TRUE
               /\ fadePhase' = "fading-to-black"
               /\ overlayState' = "full"
          ELSE UNCHANGED <<revealReady, fadePhase, overlayState>>
     /\ UNCHANGED <<activeSet, pendingSet>>

\* the images prop changed: the cleanup of the old effect runs and the effect
\* runs again, in a new closure, on the images of the new set
imagesChanged(count, size) ==
  LET range == updateZoomRange(size)'
      midZoom == Midpoint(range.min, range.max)
  IN /\ layerCount' = count
     /\ UNCHANGED <<enabled, isMobile>>
     /\ pc' = "active"
     /\ readyRef' = FALSE
     /\ zoomRangeRef' = range
     /\ glObjects' = pipeline("ok")
     /\ glTextures' = [i \in 0 .. count - 1 |-> NoObject]
     /\ textures' = [i \in 0 .. count - 1 |-> NoTexture]
     /\ texturesReady' = FALSE
     /\ cancelled' = FALSE
     /\ load' = [i \in 0 .. count - 1 |-> "pending"]
     /\ batch' = "pending"
     /\ framePending' = TRUE
     /\ listening' = TRUE
     /\ targetZoomExponent' = midZoom
     /\ currentZoomExponent' = midZoom
     /\ wheelMomentum' = 0
     /\ pinchStartDistance' = 0
     /\ pinchStartExponent' = midZoom
     /\ pinchActive' = FALSE
     /\ zoomInitialized' = TRUE
     /\ UNCHANGED <<orientationRef, onReadyCalls, frameVars, inputs>>

\* the timer of phase fading-to-black fires; the effect of phase holding
\* swaps the sets, and ZoomCanvas gets the images of the new set
fadeToBlackTimer ==
  /\ fadePhase = "fading-to-black"
  /\ fadePhase' = "holding"
  /\ IF pendingSet # NoSet
       THEN /\ activeSet' = pendingSet
            /\ pendingSet' = NoSet
            /\ \E size \in ViewportSizes :
                 imagesChanged(ImageCount(pendingSet), size)
       ELSE UNCHANGED <<activeSet, pendingSet, propVars, pc, readyRef,
                        orientationRef, zoomRangeRef, gpuVars, loadVars,
                        cancelled, framePending, listening, zoomVars,
                        pinchVars, zoomInitialized, onReadyCalls, frameVars,
                        inputs>>
  /\ UNCHANGED <<overlayState, revealReady, preload>>

\* the timer of phase holding fires; the effect of phase fading-out starts
\* the fade of the overlay
holdTimer ==
  /\ fadePhase = "holding"
  /\ fadePhase' = "fading-out"
  /\ overlayState' = "fading"
  /\ UNCHANGED <<activeSet, pendingSet, revealReady, preload>>

\* the timer of phase fading-out fires
fadeOutTimer ==
  /\ fadePhase = "fading-out"
  /\ fadePhase' = "idle"
  /\ revealReady' = FALSE
  /\ overlayState' = "hidden"
  /\ UNCHANGED <<activeSet, pendingSet, preload>>

\* handleCanvasReady, when this step called onReady
handleCanvasReady ==
  revealReady' = IF onReadyCalls' > onReadyCalls THEN TRUE ELSE revealReady

\* ---------------------------------------------------------- actions ----
Init ==
  /\ layerCount \in 0 .. MaxLayers
  /\ enabled \in BOOLEAN
  /\ isMobile \in BOOLEAN
  /\ pc = "idle"
  /\ readyRef = FALSE
  /\ orientationRef = Null
  /\ zoomRangeRef = [min |-> -Unit, max |-> Unit]
  /\ glObjects = [o \in GLObjects |-> NoObject]
  /\ glTextures = [i \in LayerIndices |-> NoObject]
  /\ textures = [i \in LayerIndices |-> NoTexture]
  /\ texturesReady = FALSE
  /\ cancelled = FALSE
  /\ load = [i \in LayerIndices |-> "none"]
  /\ batch = "pending"
  /\ framePending = FALSE
  /\ listening = FALSE
  /\ targetZoomExponent = 0
  /\ currentZoomExponent = 0
  /\ wheelMomentum = 0
  /\ pinchStartDistance = 0
  /\ pinchStartExponent = 0
  /\ pinchActive = FALSE
  /\ zoomInitialized = FALSE
  /\ onReadyCalls = 0
  /\ frames = 0
  /\ frame = NoFrame(FALSE, FALSE)
  /\ inputs = 0
  /\ HostInit

\* the effect runs
Setup ==
  /\ pc = "idle"
  /\ IF layerCount = 0
       THEN setupEmpty
       ELSE \E outcome \in SetupOutcomes :
              IF outcome = "ok"
                THEN \E size \in ViewportSizes : setupSession(size)
                ELSE setupAborted(outcome)
  /\ UNCHANGED <<propVars, orientationRef, frameVars, inputs>>
  /\ UNCHANGED hostVars

\* image.onload with a texture created: resolve(texture)
LoadSucceeds(i) ==
  /\ load[i] = "pending"
  /\ settle(i, "fulfilled")
  /\ UNCHANGED <<propVars, pc, orientationRef, zoomRangeRef, glObjects,
                 cancelled, framePending, listening, zoomVars, pinchVars,
                 zoomInitialized, frameVars, inputs>>
  /\ UNCHANGED hostVars

\* image.onerror, or image.onload with gl.createTexture returning null: reject
LoadFails(i) ==
  /\ load[i] = "pending"
  /\ settle(i, "rejected")
  /\ UNCHANGED <<propVars, pc, orientationRef, zoomRangeRef, glObjects,
                 cancelled, framePending, listening, zoomVars, pinchVars,
                 zoomInitialized, frameVars, inputs>>
  /\ UNCHANGED hostVars

\* the requested animation frame callback runs
animationFrame ==
  /\ framePending
  /\ render
  /\ UNCHANGED <<propVars, pc, readyRef, orientationRef, zoomRangeRef,
                 gpuVars, loadVars, cancelled, listening, pinchVars,
                 zoomInitialized, onReadyCalls, inputs>>

Frame ==
  /\ frames < MaxFrames
  /\ animationFrame
  /\ UNCHANGED hostVars

\* render is called although the cleanup has cancelled the request
LateFrame ==
  /\ pc = "closed"
  /\ frames < MaxFrames
  /\ render
  /\ UNCHANGED <<propVars, pc, readyRef, orientationRef, zoomRangeRef,
                 gpuVars, loadVars, cancelled, listening, pinchVars,
                 zoomInitialized, onReadyCalls, inputs>>
  /\ UNCHANGED hostVars

wheelEvent(event) ==
  /\ listening
  /\ inputs' = inputs + 1
  /\ wheelMomentum' = handleWheel(event)
  /\ UNCHANGED <<propVars, pc, readyRef, orientationRef, zoomRangeRef,
                 gpuVars, loadVars, cancelled, framePending, listening,
                 targetZoomExponent, currentZoomExponent, pinchVars,
                 zoomInitialized, onReadyCalls, frameVars>>

Wheel(event) ==
  /\ inputs < MaxInputs
  /\ wheelEvent(event)
  /\ UNCHANGED hostVars

touchStartEvent(event) ==
  /\ listening
  /\ inputs' = inputs + 1
  /\ IF ~enabled THEN UNCHANGED pinchVars ELSE beginPinch(event)
  /\ UNCHANGED <<propVars, pc, readyRef, orientationRef, zoomRangeRef,
                 gpuVars, loadVars, cancelled, framePending, listening,
                 zoomVars, zoomInitialized, onReadyCalls, frameVars>>

TouchStart(event) ==
  /\ inputs < MaxInputs
  /\ touchStartEvent(event)
  /\ UNCHANGED hostVars

touchMoveEvent(event) ==
  /\ listening
  /\ inputs' = inputs + 1
  /\ targetZoomExponent' = IF ~enabled THEN targetZoomExponent
                                       ELSE updatePinch(event)
  /\ UNCHANGED <<propVars, pc, readyRef, orientationRef, zoomRangeRef,
                 gpuVars, loadVars, cancelled, framePending, listening,
                 currentZoomExponent, wheelMomentum, pinchVars,
                 zoomInitialized, onReadyCalls, frameVars>>

TouchMove(event) ==
  /\ inputs < MaxInputs
  /\ touchMoveEvent(event)
  /\ UNCHANGED hostVars

\* touchend or touchcancel
touchEndEvent(event) ==
  /\ listening
  /\ inputs' = inputs + 1
  /\ endPinch(event)
  /\ UNCHANGED <<propVars, pc, readyRef, orientationRef, zoomRangeRef,
                 gpuVars, loadVars, cancelled, framePending, listening,
                 zoomVars, zoomInitialized, onReadyCalls, frameVars>>

TouchEnd(event) ==
  /\ inputs < MaxInputs
  /\ touchEndEvent(event)
  /\ UNCHANGED hostVars

\* the window's resize event
resizeEvent(size) ==
  /\ listening
  /\ inputs' = inputs + 1
  /\ resize(size)
  /\ UNCHANGED <<propVars, pc, readyRef, orientationRef, gpuVars, loadVars,
                 cancelled, framePending, listening, wheelMomentum,
                 pinchStartDistance, pinchActive, onReadyCalls, frameVars>>

Resize(size) ==
  /\ inputs < MaxInputs
  /\ resizeEvent(size)
  /\ UNCHANGED hostVars

\* the orientation prop changes and its effect copies it to the ref
orientationEffect(value) ==
  /\ pc \in {"idle", "active"}
  /\ value # orientationRef
  /\ inputs' = inputs + 1
  /\ orientationRef' = value
  /\ UNCHANGED <<propVars, pc, readyRef, zoomRangeRef, gpuVars, loadVars,
                 cancelled, framePending, listening, zoomVars, pinchVars,
                 zoomInitialized, onReadyCalls, frameVars>>

SetOrientation(value) ==
  /\ inputs < MaxInputs
  /\ orientationEffect(value)
  /\ UNCHANGED hostVars

\* the image list changes or the host unmounts
Teardown ==
  /\ pc = "active"
  /\ cleanup
  /\ UNCHANGED <<propVars, readyRef, orientationRef, zoomRangeRef, loadVars,
                 zoomVars, pinchVars, zoomInitialized, onReadyCalls,
                 frameVars, inputs>>
  /\ UNCHANGED hostVars

Next ==
  \/ Setup
  \/ \E i \in LayerIndices : LoadSucceeds(i)
  \/ \E i \in LayerIndices : LoadFails(i)
  \/ Frame
  \/ LateFrame
  \/ \E event \in WheelEvents : Wheel(event)
  \/ \E event \in TouchEvents : TouchStart(event)
  \/ \E event \in TouchEvents : TouchMove(event)
  \/ \E event \in TouchEvents : TouchEnd(event)
  \/ \E size \in ViewportSizes : Resize(size)
  \/ \E value \in Orientations : SetOrientation(value)
  \/ Teardown

Spec == Init /\ [][Next]_vars

\* ------------------------------------------- a session that renders ----
\* the session after the effect ran in a viewport of this size and
\* loadAllTextures assigned a texture to every layer
ReadySession(size) ==
  LET range == updateZoomRange(size)
      midZoom == Midpoint(range.min, range.max)
  IN /\ pc = "active"
     /\ readyRef = TRUE
     /\ orientationRef = Null
     /\ zoomRangeRef = range
     /\ glObjects = pipeline("ok")
     /\ glTextures = [i \in LayerIndices |-> Created(NoObject)]
     /\ textures = [i \in LayerIndices |-> i]
     /\ texturesReady = TRUE
     /\ cancelled = FALSE
     /\ load = [i \in LayerIndices |-> "fulfilled"]
     /\ batch = "assigned"
     /\ framePending = TRUE
     /\ listening = TRUE
     /\ targetZoomExponent = midZoom
     /\ currentZoomExponent = midZoom
     /\ wheelMomentum = 0
     /\ pinchStartDistance = 0
     /\ pinchStartExponent = midZoom
     /\ pinchActive = FALSE
     /\ zoomInitialized = TRUE
     /\ onReadyCalls = 1
     /\ frames = 0
     /\ frame = NoFrame(FALSE, FALSE)
     /\ inputs = 0

ZoomInit ==
  /\ layerCount \in 1 .. MaxLayers
  /\ enabled \in BOOLEAN
  /\ isMobile \in BOOLEAN
  /\ \E size \in ViewportSizes : ReadySession(size)
  /\ HostInit

ZoomFrame ==
  /\ frames < ZoomFrames
  /\ animationFrame
  /\ UNCHANGED hostVars

ZoomWheel(event) ==
  /\ inputs < ZoomInputs
  /\ wheelEvent(event)
  /\ UNCHANGED hostVars

ZoomTouchStart(event) ==
  /\ inputs < ZoomInputs
  /\ touchStartEvent(event)
  /\ UNCHANGED hostVars

ZoomTouchMove(event) ==
  /\ inputs < ZoomInputs
  /\ touchMoveEvent(event)
  /\ UNCHANGED hostVars

ZoomTouchEnd(event) ==
  /\ inputs < ZoomInputs
  /\ touchEndEvent(event)
  /\ UNCHANGED hostVars

ZoomOrientation(value) ==
  /\ inputs < ZoomInputs
  /\ orientationEffect(value)
  /\ UNCHANGED hostVars

NextZoom ==
  \/ ZoomFrame
  \/ \E event \in WheelEvents : ZoomWheel(event)
  \/ \E event \in TouchEvents : ZoomTouchStart(event)
  \/ \E event \in TouchEvents : ZoomTouchMove(event)
  \/ \E event \in TouchEvents : ZoomTouchEnd(event)
  \/ \E value \in Orientations : ZoomOrientation(value)

SpecZoom == ZoomInit /\ [][NextZoom]_vars

\* -------------------------------------- a session that eases to rest ----
\* exponents of the range a gesture can have left the target or the current
\* exponent at
EasePoints(range) ==
  LET midZoom == Midpoint(range.min, range.max)
  IN { range.min, range.max, midZoom,
       Clamp(range.min + 1234, range), Clamp(range.max - 999, range),
       Clamp(midZoom + 1000, range), Clamp(midZoom - 1001, range) }

\* a rendering session whose gesture has ended: no momentum, no pinch, no
\* tilt signal, the target inside the range and the current exponent behind it
EaseInit ==
  /\ layerCount \in 1 .. MaxLayers
  /\ enabled = TRUE
  /\ isMobile \in BOOLEAN
  /\ \E size \in ViewportSizes :
       LET range == updateZoomRange(size)
           midZoom == Midpoint(range.min, range.max)
       IN /\ pc = "active"
          /\ readyRef = TRUE
          /\ orientationRef = Null
          /\ zoomRangeRef = range
          /\ glObjects = pipeline("ok")
          /\ glTextures = [i \in LayerIndices |-> Created(NoObject)]
          /\ textures = [i \in LayerIndices |-> i]
          /\ texturesReady = TRUE
          /\ cancelled = FALSE
          /\ load = [i \in LayerIndices |-> "fulfilled"]
          /\ batch = "assigned"
          /\ framePending = TRUE
          /\ listening = TRUE
          /\ targetZoomExponent \in EasePoints(range)
          /\ currentZoomExponent \in EasePoints(range)
          /\ wheelMomentum = 0
          /\ pinchStartDistance = 0
          /\ pinchStartExponent = midZoom
          /\ pinchActive = FALSE
          /\ zoomInitialized = TRUE
          /\ onReadyCalls = 1
          /\ frames = 0
          /\ frame = NoFrame(FALSE, FALSE)
          /\ inputs = 0
          /\ HostInit

EaseFrame ==
  /\ frames < EaseSteps
  /\ animationFrame
  /\ UNCHANGED hostVars

NextEase == EaseFrame

SpecEase == EaseInit /\ [][NextEase]_vars

\* ------------------------------------------ a session after a scroll ----
\* wheel events, one of them with no vertical movement
GlideEvents ==
  WheelEvents \cup { [deltaMode |-> DOM_DELTA_PIXEL, deltaY |-> 0] }

GlideInit ==
  /\ layerCount \in 1 .. MaxLayers
  /\ enabled = TRUE
  /\ isMobile \in BOOLEAN
  /\ \E size \in ViewportSizes : ReadySession(size)
  /\ HostInit

\* the scroll: wheel events before the first frame; an event without
\* movement may arrive at any moment
GlideWheel(event) ==
  /\ inputs < GlideWheels
  /\ frames = 0 \/ event.deltaY = 0
  /\ wheelEvent(event)
  /\ UNCHANGED hostVars

GlideFrame ==
  /\ frames < GlideFrames
  /\ animationFrame
  /\ UNCHANGED hostVars

NextGlide ==
  \/ \E event \in GlideEvents : GlideWheel(event)
  \/ GlideFrame

SpecGlide == GlideInit /\ [][NextGlide]_vars

\* --------------------------------- a session whose props are changed ----
\* a dependency of the effect other than the image list changed: React runs
\* the cleanup the old effect returned and then the effect again, in a new
\* closure with new locals, which the variables describe from here on; the
\* props already have their new values
rerunEffect(size) ==
  LET range == updateZoomRange(size)'
      midZoom == Midpoint(range.min, range.max)
  IN /\ layerCount' = layerCount
     /\ pc' = "active"
     /\ readyRef' = FALSE
     /\ zoomRangeRef' = range
     /\ glObjects' = pipeline("ok")
     /\ glTextures' = [i \in LayerIndices |-> NoObject]
     /\ textures' = [i \in LayerIndices |-> NoTexture]
     /\ texturesReady' = FALSE
     /\ cancelled' = FALSE
     /\ load' = [i \in LayerIndices |-> "pending"]
     /\ batch' = "pending"
     /\ framePending' = TRUE
     /\ listening' = TRUE
     /\ targetZoomExponent' = midZoom
     /\ currentZoomExponent' = midZoom
     /\ wheelMomentum' = 0
     /\ pinchStartDistance' = 0
     /\ pinchStartExponent' = midZoom
     /\ pinchActive' = FALSE
     /\ zoomInitialized' = TRUE
     /\ UNCHANGED <<orientationRef, onReadyCalls, frameVars>>

\* the host passes another value of enabled
ChangeEnabled(size) ==
  /\ pc = "active"
  /\ inputs < ZoomInputs
  /\ inputs' = inputs + 1
  /\ enabled' = ~enabled
  /\ isMobile' = isMobile
  /\ rerunEffect(size)
  /\ UNCHANGED hostVars

\* the host passes another value of isMobile
ChangeIsMobile(size) ==
  /\ pc = "active"
  /\ inputs < ZoomInputs
  /\ inputs' = inputs + 1
  /\ isMobile' = ~isMobile
  /\ enabled' = enabled
  /\ rerunEffect(size)
  /\ UNCHANGED hostVars

NextProps ==
  \/ ZoomFrame
  \/ \E event \in WheelEvents : ZoomWheel(event)
  \/ \E i \in LayerIndices : LoadSucceeds(i)
  \/ \E size \in ViewportSizes : ChangeEnabled(size)
  \/ \E size \in ViewportSizes : ChangeIsMobile(size)

SpecProps == ZoomInit /\ [][NextProps]_vars

\* ------------------------------------------- a session that is tilted ----
\* the device is tilted before the first frame and held there
TiltSignal(value) ==
  /\ frames = 0
  /\ inputs = 0
  /\ orientationEffect(value)
  /\ UNCHANGED hostVars

TiltFrame ==
  /\ frames < TiltFrames
  /\ animationFrame
  /\ UNCHANGED hostVars

NextTilt ==
  \/ \E value \in Orientations : TiltSignal(value)
  \/ TiltFrame

SpecTilt == GlideInit /\ [][NextTilt]_vars

\* --------------------------------- a session whose textures are loading ----
LoadingFrame ==
  /\ frames < LoadingFrames
  /\ animationFrame
  /\ UNCHANGED hostVars

\* render is called although the cleanup has cancelled the request
LoadingLateFrame ==
  /\ pc = "closed"
  /\ frames < LoadingFrames
  /\ render
  /\ UNCHANGED <<propVars, pc, readyRef, orientationRef, zoomRangeRef,
                 gpuVars, loadVars, cancelled, listening, pinchVars,
                 zoomInitialized, onReadyCalls, inputs>>
  /\ UNCHANGED hostVars

LoadingWheel(event) ==
  /\ inputs < LoadingInputs
  /\ wheelEvent(event)
  /\ UNCHANGED hostVars

NextLoading ==
  \/ Setup
  \/ \E i \in LayerIndices : LoadSucceeds(i)
  \/ \E i \in LayerIndices : LoadFails(i)
  \/ LoadingFrame
  \/ LoadingLateFrame
  \/ \E event \in WheelEvents : LoadingWheel(event)
  \/ Teardown

SpecLoading == Init /\ [][NextLoading]_vars

\* ------------------------------------------ a session that is resized ----
ResizeInit ==
  /\ Init
  /\ layerCount >= 1

\* the effect runs to its end in a container of any size
ResizeSetup ==
  /\ pc = "idle"
  /\ \E size \in ContainerSizes : setupSession(size)
  /\ UNCHANGED <<propVars, orientationRef, frameVars, inputs>>
  /\ UNCHANGED hostVars

ResizeAgain(size) ==
  /\ inputs < MaxResizes
  /\ resizeEvent(size)
  /\ UNCHANGED hostVars

NextResize ==
  \/ ResizeSetup
  \/ \E size \in ContainerSizes : ResizeAgain(size)

SpecResize == ResizeInit /\ [][NextResize]_vars

\* ----------------------------- a session that drives the playback rate ----
\* ZoomCanvas renders the active set inside the host, in a container of any
\* size; the audio has been started, with or without a playing source
PlaybackInit ==
  /\ activeSet \in ImageSetNames
  /\ layerCount = ImageCount(activeSet)
  /\ enabled = TRUE
  /\ isMobile \in BOOLEAN
  /\ \E size \in ContainerSizes : ReadySession(size)
  /\ bgMusic \in BOOLEAN
  /\ isMuted \in BOOLEAN
  /\ playbackRate = Fix(MIDDLE_PLAYBACK_RATE)
  /\ pendingSet = NoSet
  /\ fadePhase = "idle"
  /\ overlayState = "hidden"
  /\ revealReady = TRUE
  /\ preload = <<>>
  /\ transitions = 0

PlaybackFrame ==
  /\ frames < PlaybackFrames
  /\ animationFrame
  /\ onZoomChange

PlaybackResize(size) ==
  /\ inputs < PlaybackResizes
  /\ resizeEvent(size)
  /\ UNCHANGED hostVars

PlaybackToggleMute ==
  /\ toggleMute
  /\ UNCHANGED canvasVars

NextPlayback ==
  \/ PlaybackFrame
  \/ \E size \in ContainerSizes : PlaybackResize(size)
  \/ PlaybackToggleMute

SpecPlayback == PlaybackInit /\ [][NextPlayback]_vars

\* ------------------------------------- the host switches the image set ----
FadeInit ==
  /\ Init
  /\ layerCount = ImageCount(activeSet)
  /\ enabled = TRUE

\* the effect of ZoomCanvas runs after the mount
FadeSetup ==
  /\ pc = "idle"
  /\ \E size \in ViewportSizes : setupSession(size)
  /\ UNCHANGED <<propVars, orientationRef, frameVars, inputs>>
  /\ UNCHANGED hostVars

FadeLoadSucceeds(i) ==
  /\ load[i] = "pending"
  /\ settle(i, "fulfilled")
  /\ handleCanvasReady
  /\ UNCHANGED <<propVars, pc, orientationRef, zoomRangeRef, glObjects,
                 cancelled, framePending, listening, zoomVars, pinchVars,
                 zoomInitialized, frameVars, inputs>>
  /\ UNCHANGED <<audioVars, activeSet, pendingSet, fadePhase, overlayState,
                 preload, transitions>>

FadeLoadFails(i) ==
  /\ load[i] = "pending"
  /\ settle(i, "rejected")
  /\ handleCanvasReady
  /\ UNCHANGED <<propVars, pc, orientationRef, zoomRangeRef, glObjects,
                 cancelled, framePending, listening, zoomVars, pinchVars,
                 zoomInitialized, frameVars, inputs>>
  /\ UNCHANGED <<audioVars, activeSet, pendingSet, fadePhase, overlayState,
                 preload, transitions>>

\* the selection settles on a set; the ring takes pointer events only once
\* the page is mounted and the audio started
FadeStart(target) ==
  /\ pc = "active"
  /\ transitions < MaxTransitions
  /\ startTransition(target)
  /\ transitions' = IF fadePhase' # fadePhase THEN transitions + 1
                                               ELSE transitions
  /\ UNCHANGED <<activeSet, preload, audioVars, canvasVars>>

FadeInTimer ==
  /\ fadeInTimer
  /\ UNCHANGED <<transitions, audioVars, canvasVars>>

FadePreload(k, outcome) ==
  /\ k \in DOMAIN preload
  /\ preload[k] = "loading"
  /\ preloadImages(k, outcome)
  /\ UNCHANGED <<transitions, audioVars, canvasVars>>

FadeToBlackTimer ==
  /\ fadeToBlackTimer
  /\ UNCHANGED <<transitions, audioVars>>

HoldTimer ==
  /\ holdTimer
  /\ UNCHANGED <<transitions, audioVars, canvasVars>>

FadeOutTimer ==
  /\ fadeOutTimer
  /\ UNCHANGED <<transitions, audioVars, canvasVars>>

PreloadSettles ==
  \E k \in 1 .. MaxLayers : \E outcome \in {"loaded", "error"} :
    FadePreload(k, outcome)

NextFade ==
  \/ FadeSetup
  \/ \E i \in LayerIndices : FadeLoadSucceeds(i)
  \/ \E i \in LayerIndices : FadeLoadFails(i)
  \/ \E target \in ImageSetNames : FadeStart(target)
  \/ FadeInTimer
  \/ PreloadSettles
  \/ FadeToBlackTimer
  \/ HoldTimer
  \/ FadeOutTimer

SpecFade == FadeInit /\ [][NextFade]_vars

\* every timer that is set fires, and every image of a preload loads or
\* fails; nothing is assumed of the selection or of the loads of ZoomCanvas
SpecFadeFair ==
  /\ FadeInit
  /\ [][NextFade]_vars
  /\ WF_vars(FadeInTimer)
  /\ WF_vars(PreloadSettles)
  /\ WF_vars(FadeToBlackTimer)
  /\ WF_vars(HoldTimer)
  /\ WF_vars(FadeOutTimer)

\* ----------------------------------------------------------- claims ----
Succeeded == Fulfilled(load)
Failed == { i \in LayerIndices : load[i] = "rejected" }
Populated == { i \in LayerIndices : textures[i] # NoTexture }
IdleFrame(f) == ~f.cleared /\ f.draws = <<>> /\ f.reported = <<>>

\* C1: onReady is invoked at most once in a session, and exactly once when
\* the batch of loads has settled with at least one success and the session
\* had not been torn down by then.
C1_OnReadyOnce ==
  /\ onReadyCalls <= 1
  /\ (batch = "assigned" /\ Succeeded # {}) => onReadyCalls = 1

C1_Witness ==
  /\ batch = "assigned"
  /\ Succeeded # {}
  /\ onReadyCalls = 1
  /\ frames > 0
  /\ inputs > 0
  /\ pc = "closed"

\* C2: when every one of N >= 1 loads has failed and the session was not
\* torn down before the batch settled, the readiness flag is set and onReady
\* has been called.
C2_AllFailedStillReady ==
  (layerCount >= 1 /\ batch = "assigned" /\ Failed = LayerIndices)
    => (texturesReady /\ onReadyCalls = 1)

\* C3: after a batch with some failed and some successful loads has settled
\* without teardown, onReady has fired and slot i holds the texture of load i
\* exactly when load i succeeded, so N - |F| slots are populated.
C3_PartialFailure ==
  (batch = "assigned" /\ Failed # {} /\ Succeeded # {})
    => /\ onReadyCalls = 1
       /\ \A i \in LayerIndices :
            /\ (textures[i] # NoTexture) <=> (i \in Succeeded)
            /\ (i \in Succeeded) => textures[i] = i
       /\ Cardinality(Populated) = layerCount - Cardinality(Failed)

C3_Witness ==
  /\ layerCount = 3
  /\ batch = "assigned"
  /\ Failed = {0}
  /\ Populated = {1, 2}
  /\ onReadyCalls = 1

\* C4: with an empty source list the effect calls onReady once, in the setup
\* step itself, and creates no GPU object, registers no listener, requests no
\* frame and issues no load.
C4_EmptyList ==
  layerCount = 0 =>
    /\ onReadyCalls = (IF pc = "idle" THEN 0 ELSE 1)
    /\ pc \in {"idle", "inert"}
    /\ \A o \in GLObjects : glObjects[o] = NoObject
    /\ ~listening
    /\ ~framePending
    /\ frames = 0
    /\ batch = "pending"
    /\ ~zoomInitialized

C4_Witness == layerCount = 0 /\ pc = "inert" /\ onReadyCalls = 1

\* C5: when the batch settles after the session was torn down, no texture is
\* installed in the table and every texture whose load succeeded has been
\* deleted exactly once.
C5_DisposedWhenCancelled ==
  batch = "disposed" =>
    /\ \A i \in LayerIndices : textures[i] = NoTexture
    /\ \A i \in Succeeded :
         glTextures[i].created /\ glTextures[i].deleted = 1
    /\ \A i \in Failed : glTextures[i] = NoObject

C5_Witness ==
  /\ batch = "disposed"
  /\ Succeeded # {}
  /\ Failed # {}
  /\ \A i \in Succeeded : glTextures[i].deleted = 1

\* C6: once the session is torn down, a call of render clears nothing,
\* draws nothing and reports nothing, no step changes target, current or
\* momentum, and no frame is requested.
C6_NoWorkAfterTeardown ==
  [][pc = "closed" =>
       /\ UNCHANGED zoomVars
       /\ ~framePending'
       /\ (frames' # frames => IdleFrame(frame'))]_vars

C6_Witness ==
  /\ pc = "closed"
  /\ frame.cancelled
  /\ frame.ready
  /\ wheelMomentum # 0
  /\ batch = "assigned"
  /\ ~framePending

\* C7: onReady is not called in any step taken after the teardown.
C7_NoReadyAfterTeardown ==
  [][cancelled => onReadyCalls' = onReadyCalls]_vars

C7_Witness ==
  /\ pc = "closed"
  /\ batch = "disposed"
  /\ Succeeded # {}
  /\ onReadyCalls = 0

\* C8: no GPU object is deleted twice, and once the teardown has run and the
\* batch of loads has settled every shader, program, buffer and texture that
\* was created has been deleted.
C8_TeardownReleasesAll ==
  /\ \A o \in GLObjects : glObjects[o].deleted <= 1
  /\ \A i \in LayerIndices : glTextures[i].deleted <= 1
  /\ (pc = "closed" /\ batch # "pending") =>
       /\ \A o \in GLObjects :
            glObjects[o].created /\ glObjects[o].deleted = 1
       /\ \A i \in LayerIndices :
            glTextures[i].created => glTextures[i].deleted = 1

C8_Witness ==
  /\ pc = "closed"
  /\ batch = "assigned"
  /\ Cardinality(Populated) >= 2
  /\ \A i \in Populated : glTextures[i].deleted = 1

\* C9: a texture whose load completes after the cancellation is deleted in
\* the step of its own completion.
C9_ReleasedAtCompletion ==
  [][\A i \in LayerIndices :
       (cancelled /\ load[i] = "pending" /\ load'[i] = "fulfilled")
         => glTextures'[i].deleted = 1]_vars

\* C10: a call of render made while the readiness flag is unset clears
\* nothing, draws nothing, reports nothing and leaves the zoom state alone;
\* in a live session it requests the next frame.
C10_NoDrawBeforeReady ==
  [][(frames' # frames /\ ~texturesReady) =>
       /\ IdleFrame(frame')
       /\ UNCHANGED zoomVars
       /\ (~cancelled => framePending')]_vars

C10_Witness ==
  /\ frames > 0
  /\ ~frame.ready
  /\ ~frame.cancelled
  /\ framePending
  /\ wheelMomentum # 0
  /\ \E i \in LayerIndices : load[i] = "fulfilled"

\* C11: a call of render in a ready, live session calls onZoomChange exactly
\* once, with the exponent produced by that frame's easing step and the
\* active range; any other call of render does not call it.
C11_ZoomReportedPerFrame ==
  [][frames' # frames =>
       IF texturesReady /\ ~cancelled
         THEN /\ currentZoomExponent' =
                   stepZoom(currentZoomExponent, targetZoomExponent')
              /\ frame'.reported = << [zoomExponent |-> currentZoomExponent',
                                       zoomRange |-> zoomRangeRef'] >>
         ELSE frame'.reported = <<>>]_vars

C11_Witness ==
  /\ frame.ready
  /\ ~frame.cancelled
  /\ Len(frame.reported) = 1
  /\ frame.reported[1].zoomExponent = currentZoomExponent
  /\ currentZoomExponent # targetZoomExponent
  /\ frames >= 2

\* C12: while enabled is false, no wheel event, no touch event and no frame
\* with a non-null tilt signal changes the target exponent, the current
\* exponent or the wheel momentum.
C12_DisabledChannelsInert ==
  [][(/\ ~enabled
      /\ \/ \E event \in WheelEvents : wheelEvent(event)
         \/ \E event \in TouchEvents :
              \/ touchStartEvent(event)
              \/ touchMoveEvent(event)
              \/ touchEndEvent(event)
         \/ (orientationRef # Null /\ animationFrame))
     => UNCHANGED zoomVars]_vars

\* C13: while the orientation signal is null, a rendering frame leaves the
\* target exponent where the momentum step (and the snap-back) put it, so the
\* tilt step adds nothing: with no momentum and the target inside the range
\* the target is unchanged, with momentum it moves by momentum times
\* WHEEL_SENSITIVITY; a pinch move still sets the target from the distances.
C13_NullTiltIsNoOp ==
  [][orientationRef = Null =>
       /\ (frames' # frames /\ wheelMomentum = 0
             /\ targetZoomExponent = Clamp(targetZoomExponent, zoomRangeRef))
            => targetZoomExponent' = targetZoomExponent
       /\ (frames' # frames /\ wheelMomentum # 0)
            => LET moved == Clamp(targetZoomExponent
                                    + Mul(wheelMomentum, WHEEL_SENSITIVITY),
                                  zoomRangeRef)
               IN targetZoomExponent' = snapBack(moved, wheelMomentum')
       /\ \A event \in TouchEvents :
            (enabled /\ pinchActive /\ pinchStartDistance > 0
               /\ event.touches = 2 /\ event.distance > 0
               /\ touchMoveEvent(event))
            => targetZoomExponent' =
                 Clamp(pinchStartExponent
                         - Log2(event.distance, pinchStartDistance),
                       zoomRangeRef)]_vars

\* null signal, a pinch has moved the target and a frame applied wheel momentum
C13_Witness ==
  /\ orientationRef = Null
  /\ inputs = 3
  /\ pinchActive
  /\ targetZoomExponent # pinchStartExponent
  /\ wheelMomentum # 0
  /\ frames > 0

\* C14: every range updateZoomRange computes has min <= max, for every layer
\* count, both device classes and every container size, a zero width or
\* height included.
C14_RangeOrdered ==
  zoomInitialized => Leq(zoomRangeRef.min, zoomRangeRef.max)

\* C19: a resize after the first leaves the target, the current and the
\* pinch-start exponent inside the new range, and leaves each of them
\* unchanged when it was inside the new range already.
C19_ResizeReclamps ==
  [][(zoomInitialized /\ \E size \in ContainerSizes : resizeEvent(size))
     => \A k \in 1 .. 3 :
          LET old == <<targetZoomExponent, currentZoomExponent,
                       pinchStartExponent>>[k]
              new == <<targetZoomExponent', currentZoomExponent',
                       pinchStartExponent'>>[k]
          IN /\ Leq(zoomRangeRef'.min, new) /\ Leq(new, zoomRangeRef'.max)
             /\ (Leq(zoomRangeRef'.min, old) /\ Leq(old, zoomRangeRef'.max))
                  => new = old]_vars

\* C15: with the target held fixed, repeated stepZoom calls bring the current
\* exponent to exactly the target within EaseSteps steps from any current
\* exponent of the range, and once equal it stays equal on every later step.
C15_EasingConverges ==
  /\ [](frames = EaseSteps => currentZoomExponent = targetZoomExponent)
  /\ [][/\ targetZoomExponent' = targetZoomExponent
        /\ (currentZoomExponent = targetZoomExponent
              => currentZoomExponent' = targetZoomExponent)]_vars

\* a run still short of its target after most of the steps
C15_Witness ==
  /\ frames >= EaseSteps - 20
  /\ currentZoomExponent # targetZoomExponent
  /\ frame.reported # <<>>

\* C16: with no new wheel input, each rendering frame multiplies a non-zero
\* momentum by WHEEL_DAMPING, or sets it to exactly 0 when the product is
\* below WHEEL_EPSILON; the momentum is 0 after GlideFrames frames; once 0 it
\* stays 0 and the frame no longer changes the target; a wheel event with
\* delta 0 leaves the momentum unchanged.
C16_MomentumDecays ==
  /\ [](frames = GlideFrames => wheelMomentum = 0)
  /\ [][frames' # frames =>
          LET damped == Mul(wheelMomentum, WHEEL_DAMPING)
          IN IF wheelMomentum = 0
               THEN /\ wheelMomentum' = 0
                    /\ targetZoomExponent' = targetZoomExponent
               ELSE wheelMomentum' =
                      IF Abs(damped) < Fix(WHEEL_EPSILON) THEN 0 ELSE damped]_vars
  /\ [][\A event \in GlideEvents :
          (event.deltaY = 0 /\ wheelEvent(event))
            => wheelMomentum' = wheelMomentum]_vars

\* a glide that has come to rest after two wheel events and many frames
C16_Witness ==
  /\ inputs = GlideWheels
  /\ frames > 60
  /\ wheelMomentum = 0
  /\ targetZoomExponent # Midpoint(zoomRangeRef.min, zoomRangeRef.max)

\* C17: during an active pinch a move at distance d, the pinch having started
\* at distance d0 and exponent e0, sets the target to e0 - log2(d / d0)
\* clamped into the range, whatever the target was before the move: e0 for
\* d = d0, e0 - 1 before clamping for d = 2 d0, e0 + 1 for 2 d = d0.
C17_PinchFromStart ==
  [][\A event \in TouchEvents :
       (/\ enabled /\ pinchActive /\ pinchStartDistance > 0
        /\ event.touches = 2 /\ event.distance > 0
        /\ touchMoveEvent(event))
       => LET octaves == IF event.distance = pinchStartDistance THEN 0
                         ELSE IF event.distance = 2 * pinchStartDistance THEN Unit
                         ELSE IF 2 * event.distance = pinchStartDistance THEN -Unit
                         ELSE Log2(event.distance, pinchStartDistance)
          IN targetZoomExponent' =
               Max(zoomRangeRef.min,
                   Min(zoomRangeRef.max, pinchStartExponent - octaves))]_vars

\* a pinch to twice the start distance has put the target one octave below
\* the start exponent, in a session whose frames move the target by tilt
C17_Witness ==
  /\ pinchActive
  /\ pinchStartDistance = 100
  /\ targetZoomExponent = pinchStartExponent - Unit
  /\ targetZoomExponent > zoomRangeRef.min
  /\ frames > 0
  /\ orientationRef # Null
  /\ inputs = 3

\* C18: a pinch move whose start distance is zero or whose current distance
\* is zero (a ratio that is not finite or not positive) changes neither the
\* target, the current exponent, the momentum nor the pinch state.
C18_DegeneratePinchIgnored ==
  [][\A event \in TouchEvents :
       (/\ pinchActive
        /\ event.touches = 2
        /\ pinchStartDistance = 0 \/ event.distance = 0
        /\ touchMoveEvent(event))
       => UNCHANGED <<zoomVars, pinchVars>>]_vars

\* a pinch that began with both fingers on one point, followed by two more
\* touch or other inputs, with the target where the pinch found it
C18_Witness ==
  /\ enabled
  /\ pinchActive
  /\ pinchStartDistance = 0
  /\ inputs = 3
  /\ targetZoomExponent = pinchStartExponent
  /\ targetZoomExponent # zoomRangeRef.max

\* C20: a change of only the enabled flag or of the device-class flag keeps
\* the session: the zoom state, the texture table, the graphics objects and
\* the readiness are what they were, and onReady is not emitted a second time.
C20_PropChangeKeepsSession ==
  /\ [][(enabled' # enabled \/ isMobile' # isMobile)
          => UNCHANGED <<zoomVars, textures, texturesReady, readyRef,
                         glObjects, glTextures>>]_vars
  /\ [](onReadyCalls <= 1)

\* C21: whenever the effect has ended on a fatal construction error (no
\* rendering context, a shader that does not compile, a program that does not
\* link, a missing location, no buffer), onReady has been called.
C21_ReadyOnFatalError ==
  (pc = "inert" /\ layerCount >= 1) => onReadyCalls = 1

\* C22: when setup has aborted, no frame is requested, no listener is
\* attached, no load has been issued, and every shader and program that was
\* created has been deleted.
C22_NoPartialSession ==
  (pc = "inert" /\ layerCount >= 1)
    => /\ ~framePending
       /\ ~listening
       /\ \A i \in LayerIndices : load[i] = "none"
       /\ \A o \in {"vertexShader", "fragmentShader", "program"} :
            glObjects[o].created => glObjects[o].deleted = 1

\* C23: for N >= 1 images there are N layers in the order of the images, and
\* layer i has the scale 2^i, strictly increasing in i: a frame of a session
\* whose N textures are loaded issues N draws, from layer N - 1 down to layer
\* 0, the draw of layer i with the texture of image i and the scale 2^i.
C23_LayerScales ==
  (frame.draws # <<>> /\ \A i \in LayerIndices : textures[i] # NoTexture)
    => /\ Len(frame.draws) = layerCount
       /\ \A k \in 1 .. Len(frame.draws) :
            /\ frame.draws[k].index = layerCount - k
            /\ frame.draws[k].texture = frame.draws[k].index
            /\ frame.draws[k].scale = 2 ^ frame.draws[k].index
       /\ \A k \in 1 .. Len(frame.draws) - 1 :
            frame.draws[k].scale > frame.draws[k + 1].scale

\* a frame that drew three layers
C23_Witness ==
  /\ layerCount >= 3
  /\ Len(frame.draws) = layerCount
  /\ frame.draws[1].scale = 4
  /\ frame.draws[layerCount].scale = 1

\* C24: while one of the N loads has not settled, no texture slot is filled
\* and readiness is not signalled, whether or not another load has failed;
\* once all have settled with at least one success and no teardown before,
\* the slots of the successes are filled and readiness is signalled.
C24_WaitsForAllLoads ==
  /\ (\E i \in LayerIndices : load[i] = "pending")
       => /\ \A i \in LayerIndices : textures[i] = NoTexture
          /\ ~texturesReady
          /\ ~readyRef
          /\ onReadyCalls = 0
          /\ batch = "pending"
  /\ (/\ pc = "active"
      /\ \A i \in LayerIndices : load[i] \in {"fulfilled", "rejected"}
      /\ \E i \in LayerIndices : load[i] = "fulfilled")
       => /\ texturesReady
          /\ readyRef
          /\ onReadyCalls = 1
          /\ \A i \in LayerIndices : (textures[i] # NoTexture) <=> (load[i] = "fulfilled")

\* one load has failed, one has succeeded and one is still pending
C24_Witness ==
  /\ \E i \in LayerIndices : load[i] = "rejected"
  /\ \E i \in LayerIndices : load[i] = "fulfilled"
  /\ \E i \in LayerIndices : load[i] = "pending"
  /\ ~texturesReady
  /\ frames > 0

\* C25: a texture slot changes only in the step in which the batch is
\* assigned, and then from empty to its texture; a slot whose load failed is
\* empty from then on and no load is issued for it again; a filled slot keeps
\* its texture.
C25_SlotsWrittenOnce ==
  [][\A i \in LayerIndices :
       /\ textures'[i] # textures[i]
            => /\ batch = "pending" /\ batch' = "assigned"
               /\ textures[i] = NoTexture
               /\ \A j \in LayerIndices : load'[j] \in {"fulfilled", "rejected"}
       /\ load[i] = "rejected"
            => load'[i] = "rejected" /\ textures'[i] = NoTexture
       /\ load[i] = "fulfilled" => load'[i] = "fulfilled"
       /\ textures[i] # NoTexture => textures'[i] = textures[i]]_vars

\* a session that drew with one slot filled and one left empty by a failed
\* load, and was torn down afterwards
C25_Witness ==
  /\ \E i \in LayerIndices : load[i] = "rejected" /\ textures[i] = NoTexture
  /\ \E i \in LayerIndices : textures[i] # NoTexture
  /\ frame.draws # <<>>
  /\ pc = "closed"

\* C26: a wheel event, when enabled, adds its delta (in pixels, clamped to
\* +-MAX_WHEEL_DELTA, divided by WHEEL_NORMALIZATION_FACTOR) to the momentum
\* and changes neither the target, the current exponent nor the pinch state;
\* the target moves in the next rendering frame, by the momentum times
\* WHEEL_SENSITIVITY, clamped into the range.
C26_WheelIsInertial ==
  [][/\ \A event \in WheelEvents :
          wheelEvent(event)
            => /\ UNCHANGED <<targetZoomExponent, currentZoomExponent, pinchVars>>
               /\ enabled =>
                    LET pixels == normalizedDelta(event)
                        clampedDelta == IF pixels > MAX_WHEEL_DELTA THEN MAX_WHEEL_DELTA
                                        ELSE IF pixels < -MAX_WHEEL_DELTA THEN -MAX_WHEEL_DELTA
                                        ELSE pixels
                    IN wheelMomentum' = wheelMomentum
                         + Trunc(clampedDelta * Unit, WHEEL_NORMALIZATION_FACTOR)
               /\ ~enabled => wheelMomentum' = wheelMomentum
     /\ (frames' # frames /\ wheelMomentum # 0 /\ orientationRef = Null)
          => LET moved == targetZoomExponent + Mul(wheelMomentum, WHEEL_SENSITIVITY)
             IN targetZoomExponent' =
                  IF moved < zoomRangeRef.min THEN zoomRangeRef.min
                  ELSE IF moved > zoomRangeRef.max THEN zoomRangeRef.max
                  ELSE moved]_vars

\* two wheel events have accumulated and a frame has moved the target
C26_Witness ==
  /\ enabled
  /\ orientationRef = Null
  /\ ~pinchActive
  /\ inputs = 2
  /\ frames = 1
  /\ wheelMomentum = Mul(2 * Trunc(MAX_WHEEL_DELTA * Unit, WHEEL_NORMALIZATION_FACTOR), WHEEL_DAMPING)
  /\ targetZoomExponent # currentZoomExponent

\* C27: a rendering frame applies the momentum to the target (clamped) and
\* damps the momentum, then applies the tilt to that target (clamped), then
\* the snap-back, then eases the current exponent toward the resulting
\* target, draws with the zoom factor 2^current, reports that same exponent
\* to onZoomChange, and requests the next frame.
C27_FrameOrder ==
  [][(frames' # frames /\ texturesReady /\ ~cancelled)
     => LET damped == Mul(wheelMomentum, WHEEL_DAMPING)
            momentum == IF wheelMomentum = 0 THEN 0
                        ELSE IF Abs(damped) < Fix(WHEEL_EPSILON) THEN 0
                        ELSE damped
            pushed == IF wheelMomentum = 0 THEN targetZoomExponent
                      ELSE Clamp(targetZoomExponent
                                   + Mul(wheelMomentum, WHEEL_SENSITIVITY),
                                 zoomRangeRef)
            tilted == applyOrientationZoom(pushed)
            target == snapBack(tilted, momentum)
            eased == currentZoomExponent
                       + Mul(target - currentZoomExponent, ZOOM_EASING)
            current == IF Abs(target - eased) < Fix(ZOOM_TOLERANCE)
                         THEN target ELSE eased
        IN /\ wheelMomentum' = momentum
           /\ targetZoomExponent' = target
           /\ currentZoomExponent' = current
           /\ frame'.cleared
           /\ frame'.zoomScale = <<current>>
           /\ Len(frame'.reported) = 1
           /\ frame'.reported[1].zoomExponent = current
           /\ framePending']_vars

\* a frame in which momentum and tilt both moved the target and the current
\* exponent followed it
C27_Witness ==
  /\ frames = 1
  /\ inputs = 2
  /\ orientationRef \notin {Null, <<0>>}
  /\ wheelMomentum # 0
  /\ frame.zoomScale = <<currentZoomExponent>>
  /\ currentZoomExponent # targetZoomExponent
  /\ currentZoomExponent # Midpoint(zoomRangeRef.min, zoomRangeRef.max)

\* every writer of the target exponent clamps it into the range, and resize
\* replaces the range and clamps in one step: once initialised, the target is
\* never outside the range, so the snap-back of render finds nothing to do
TargetInsideRange ==
  zoomInitialized
    => /\ Leq(zoomRangeRef.min, targetZoomExponent)
       /\ Leq(targetZoomExponent, zoomRangeRef.max)

\* C29: a touchend or touchcancel that leaves fewer than two touch points
\* makes the pinch inactive and resets its start distance, whatever enabled
\* is; one that leaves two or more points changes nothing of the pinch; while
\* no pinch is active a touch move changes nothing, and only a touch start
\* with two points, when enabled, makes a pinch active.
C29_PinchEnds ==
  [][/\ \A event \in TouchEvents :
          touchEndEvent(event)
            => /\ UNCHANGED zoomVars
               /\ IF event.touches < 2
                    THEN /\ ~pinchActive'
                         /\ pinchStartDistance' = 0
                         /\ pinchStartExponent' = pinchStartExponent
                    ELSE UNCHANGED pinchVars
     /\ \A event \in TouchEvents :
          (~pinchActive /\ touchMoveEvent(event))
            => UNCHANGED <<zoomVars, pinchVars>>
     /\ (~pinchActive /\ pinchActive')
          => /\ enabled
             /\ \E event \in TouchEvents :
                  event.touches = 2 /\ touchStartEvent(event)]_vars

\* a pinch began, moved the target and ended: nothing else has moved the
\* target, and the pinch is inactive with its start distance reset
C29_Witness ==
  /\ ~pinchActive
  /\ pinchStartDistance = 0
  /\ inputs = 3
  /\ frames = 0
  /\ targetZoomExponent # Midpoint(zoomRangeRef.min, zoomRangeRef.max)

\* C30: a rendering frame under a tilt t # 0 adds to the target a delta with
\* the sign of t and the magnitude max(|t| * ORIENTATION_ZOOM_SPEED,
\* MIN_ZOOM_SPEED) * FRAME_TIME_FACTOR and clamps the target into the range;
\* under a tilt of 0 the target is unchanged; under a constant tilt the target
\* is at the bound on the side of the tilt after TiltFrames frames, and once
\* there it stays there.
C30_TiltMovesTarget ==
  /\ [][(frames' # frames /\ orientationRef # Null)
        => LET t == orientationRef[1]
               speed == Max(Mul(Abs(t) * Unit, ORIENTATION_ZOOM_SPEED),
                            Fix(MIN_ZOOM_SPEED))
               step == Mul(speed, FRAME_TIME_FACTOR)
               moved == IF t > 0 THEN targetZoomExponent + step
                        ELSE IF t < 0 THEN targetZoomExponent - step
                        ELSE targetZoomExponent
               bound == IF t > 0 THEN zoomRangeRef.max ELSE zoomRangeRef.min
           IN /\ targetZoomExponent' =
                   IF moved < zoomRangeRef.min THEN zoomRangeRef.min
                   ELSE IF moved > zoomRangeRef.max THEN zoomRangeRef.max
                   ELSE moved
              /\ (t # 0 /\ targetZoomExponent = bound)
                   => targetZoomExponent' = bound]_vars
  /\ [](frames = TiltFrames =>
          /\ (orientationRef # Null /\ orientationRef[1] > 0)
               => targetZoomExponent = zoomRangeRef.max
          /\ (orientationRef # Null /\ orientationRef[1] < 0)
               => targetZoomExponent = zoomRangeRef.min)

\* a small tilt to the left, at the minimum speed, has brought the target
\* from the middle of a range of two octaves to its lower bound
C30_Witness ==
  /\ orientationRef = <<-5>>
  /\ zoomRangeRef.max - zoomRangeRef.min >= 2 * Unit
  /\ targetZoomExponent = zoomRangeRef.min
  /\ frames > 200

\* C31: a rendering frame issues its draw calls by descending layer index,
\* exactly one for each filled texture slot, with the texture of that slot,
\* and none for an empty slot; the edge-feather width is 0 for index N - 1
\* and EDGE_FEATHER_WIDTH for every other index.
C31_DrawOrder ==
  [][(frames' # frames /\ frame'.cleared)
     => LET draws == frame'.draws
        IN /\ \A i \in LayerIndices :
                Cardinality({k \in 1 .. Len(draws) : draws[k].index = i})
                  = IF textures[i] # NoTexture THEN 1 ELSE 0
           /\ \A k \in 1 .. Len(draws) :
                /\ draws[k].index \in LayerIndices
                /\ draws[k].texture = textures[draws[k].index]
                /\ draws[k].feather = IF draws[k].index = layerCount - 1
                                        THEN <<0, 1>> ELSE <<12, 100>>
           /\ \A k \in 1 .. Len(draws) - 1 :
                draws[k].index > draws[k + 1].index]_vars

\* a frame that drew two layers around an empty slot, or below an empty
\* outermost slot
C31_Witness ==
  /\ layerCount = 3
  /\ Len(frame.draws) = 2
  /\ textures[0] # NoTexture
  /\ frame.draws[2].feather = EDGE_FEATHER_WIDTH
  /\ \E i \in LayerIndices : load[i] = "rejected"

C33_ExponentsInsideRange ==
  /\ zoomInitialized
       => /\ Leq(zoomRangeRef.min, targetZoomExponent)
          /\ Leq(targetZoomExponent, zoomRangeRef.max)
          /\ Leq(zoomRangeRef.min, currentZoomExponent)
          /\ Leq(currentZoomExponent, zoomRangeRef.max)
  /\ \A k \in 1 .. Len(frame.reported) :
       /\ Leq(frame.reported[k].zoomRange.min, frame.reported[k].zoomExponent)
       /\ Leq(frame.reported[k].zoomExponent, frame.reported[k].zoomRange.max)

\* C34: the easing step never overshoots: after the stepZoom of a frame the
\* current exponent lies between its previous value and the target of that
\* frame, both included, and when the frame left the target as it was the
\* distance between target and current exponent has not grown.
C34_EasingNeverOvershoots ==
  [][frames' # frames /\ frame'.cleared
     => /\ \/ /\ currentZoomExponent <= currentZoomExponent'
              /\ currentZoomExponent' <= targetZoomExponent'
           \/ /\ targetZoomExponent' <= currentZoomExponent'
              /\ currentZoomExponent' <= currentZoomExponent
        /\ targetZoomExponent' = targetZoomExponent
             => Abs(targetZoomExponent - currentZoomExponent')
                  <= Abs(targetZoomExponent - currentZoomExponent)]_vars

\* a first easing step that moved the current exponent and has not arrived
C34_Witness ==
  /\ frames = 1
  /\ frame.cleared
  /\ currentZoomExponent # targetZoomExponent
  /\ currentZoomExponent \notin EasePoints(zoomRangeRef)

\* C35: the first resize of a session runs during setup, before a listener
\* is attached or a frame requested, and sets the current, the target and
\* the pinch-start exponent to the midpoint (min + max) / 2 of the range it
\* computed; a later resize never centres them again: each keeps its value,
\* clamped into the new range.
C35_CentredOnce ==
  [][/\ (pc = "idle" /\ \E size \in ContainerSizes : setupSession(size))
          => /\ ~zoomInitialized /\ ~listening /\ ~framePending
             /\ zoomInitialized'
             /\ \A v \in {targetZoomExponent', currentZoomExponent',
                          pinchStartExponent'} :
                  v = Midpoint(zoomRangeRef'.min, zoomRangeRef'.max)
     /\ (\E size \in ContainerSizes : resizeEvent(size))
          => /\ zoomInitialized
             /\ targetZoomExponent' = Clamp(targetZoomExponent, zoomRangeRef')
             /\ currentZoomExponent' = Clamp(currentZoomExponent, zoomRangeRef')
             /\ pinchStartExponent' = Clamp(pinchStartExponent, zoomRangeRef')
    ]_vars

\* after a later resize the exponents are off the midpoint of the range
C35_Witness ==
  /\ zoomInitialized
  /\ inputs >= 1
  /\ zoomRangeRef.max # NaN
  /\ targetZoomExponent # Midpoint(zoomRangeRef.min, zoomRangeRef.max)
  /\ currentZoomExponent = targetZoomExponent
  /\ pinchStartExponent = targetZoomExponent

\* C36: a frame that runs while the textures are not ready changes neither
\* the target, nor the current exponent, nor the wheel momentum; a wheel
\* event of that period adds its whole clamped and scaled delta to the
\* momentum, and the momentum is spent on the target only by a frame that
\* renders.
C36_LoadingFramesKeepZoomState ==
  [][/\ (frames' # frames /\ ~texturesReady)
          => /\ UNCHANGED <<targetZoomExponent, currentZoomExponent,
                            wheelMomentum>>
             /\ ~frame'.cleared
     /\ \A event \in WheelEvents :
          (~texturesReady /\ enabled /\ wheelEvent(event))
            => /\ wheelMomentum' - wheelMomentum
                    = Trunc(Max(-MAX_WHEEL_DELTA,
                                Min(MAX_WHEEL_DELTA, normalizedDelta(event)))
                              * Unit,
                            WHEEL_NORMALIZATION_FACTOR)
               /\ UNCHANGED <<targetZoomExponent, currentZoomExponent>>
     /\ (wheelMomentum # 0 /\ wheelMomentum' # wheelMomentum
           /\ frames' # frames)
          => /\ texturesReady /\ frame'.cleared
             /\ targetZoomExponent'
                  = Clamp(targetZoomExponent
                            + Mul(wheelMomentum, WHEEL_SENSITIVITY),
                          zoomRangeRef)]_vars

\* two wheel events have piled up behind frames that wait for the textures
C36_Witness ==
  /\ pc = "active"
  /\ ~texturesReady
  /\ frames >= 2
  /\ inputs = 2
  /\ Abs(wheelMomentum) > Trunc(MAX_WHEEL_DELTA * Unit, WHEEL_NORMALIZATION_FACTOR)
  /\ targetZoomExponent = Midpoint(zoomRangeRef.min, zoomRangeRef.max)

\* C37: no texture is used after its release or released twice: whatever the
\* order of load settlement, frames and teardown, a draw call never binds a
\* deleted texture, and every created texture is deleted at most once, by the
\* teardown from the table or by the disposal of a cancelled batch.
C37_TextureLifetime ==
  /\ [](\A i \in LayerIndices :
          /\ glTextures[i].deleted <= 1
          /\ glTextures[i].deleted = 1 => glTextures[i].created
          /\ (glTextures[i].deleted = 1 /\ batch = "disposed")
               => textures[i] = NoTexture)
  /\ [][frames' # frames
        => \A k \in 1 .. Len(frame'.draws) :
             /\ glTextures[frame'.draws[k].texture].created
             /\ glTextures[frame'.draws[k].texture].deleted = 0]_vars

\* a session torn down before its loads settled: the batch was disposed,
\* every texture created is deleted once, and render was called once more
C37_Witness ==
  /\ pc = "closed"
  /\ layerCount >= 2
  /\ batch = "disposed"
  /\ \A i \in LayerIndices : glTextures[i].created => glTextures[i].deleted = 1
  /\ \E i \in LayerIndices : glTextures[i].created
  /\ frame.cancelled
  /\ frames >= 2

\* C38: the playback rate the host sets from a zoom report always lies in
\* [MIN_PLAYBACK_RATE, MAX_PLAYBACK_RATE] = [0.5, 2], for every value
\* ZoomCanvas can report: a report at the range minimum gives 0.5, at the
\* midpoint 1.0, at the maximum 2.0, and a range with min = max gives 1.0.
C38_PlaybackRateInRange ==
  /\ [](/\ Leq(Fix(MIN_PLAYBACK_RATE), playbackRate)
        /\ Leq(playbackRate, Fix(MAX_PLAYBACK_RATE)))
  /\ [][(frames' # frames /\ frame'.reported # <<>> /\ bgMusic /\ ~isMuted)
        => LET zoomExponent == frame'.reported[1].zoomExponent
               zoomRange == frame'.reported[1].zoomRange
           IN /\ zoomRange.min = zoomRange.max => playbackRate' = Unit
              /\ zoomRange.min # zoomRange.max
                   => /\ zoomExponent = zoomRange.min
                           => playbackRate' = Unit \div 2
                      /\ zoomExponent = zoomRange.max
                           => playbackRate' = 2 * Unit
                      /\ zoomExponent = Midpoint(zoomRange.min, zoomRange.max)
                           => playbackRate' = Unit]_vars

\* C39: an image-set transition of the host passes through the phases in the
\* order idle, fading-in, loading, fading-to-black, holding, fading-out,
\* idle; a transition starts, and the pending set is set, only in phase idle
\* and for a set other than the active one; the active set changes only in
\* the step that enters phase holding, to the pending set, with the overlay
\* in state full before and after.
C39_PhaseOrder ==
  [][/\ fadePhase' # fadePhase
          => <<fadePhase, fadePhase'>>
               \in { <<"idle", "fading-in">>, <<"fading-in", "loading">>,
                     <<"loading", "fading-to-black">>,
                     <<"fading-to-black", "holding">>,
                     <<"holding", "fading-out">>, <<"fading-out", "idle">> }
     /\ (pendingSet' # pendingSet /\ pendingSet' # NoSet)
          => /\ fadePhase = "idle" /\ fadePhase' = "fading-in"
             /\ pendingSet' # activeSet
             /\ overlayState' = "half"
     /\ (fadePhase = "idle" /\ fadePhase' = "fading-in")
          => pendingSet' \in ImageSetNames \ {activeSet}
     /\ activeSet' # activeSet
          => /\ fadePhase = "fading-to-black" /\ fadePhase' = "holding"
             /\ activeSet' = pendingSet
             /\ pendingSet' = NoSet
             /\ overlayState = "full" /\ overlayState' = "full"]_vars

\* a second transition has run to its end and another set is on display
C39_Witness ==
  /\ transitions = 2
  /\ fadePhase = "idle"
  /\ overlayState = "hidden"
  /\ activeSet = "cities"
  /\ layerCount = ImageCount("cities")

\* C40: every started transition of the host eventually returns to phase
\* idle with the overlay hidden and the pending set cleared, provided every
\* preloaded image loads or fails, whether the images load or fail and
\* whether or not ZoomCanvas ever calls onReady.
C40_TransitionEnds ==
  (fadePhase # "idle")
    ~> (fadePhase = "idle" /\ overlayState = "hidden" /\ pendingSet = NoSet)

\* a transition has ended although an image of the preload failed and
\* ZoomCanvas never called onReady, before or after the swap
C40_Witness ==
  /\ transitions >= 1
  /\ fadePhase = "idle"
  /\ overlayState = "hidden"
  /\ pendingSet = NoSet
  /\ activeSet # "animals"
  /\ onReadyCalls = 0
  /\ ~revealReady
  /\ \E k \in DOMAIN preload : preload[k] = "error"
====
